---- MODULE Spec2Model ----
(***************************************************************************)
(* Verification model of the advisory assistant's query pipeline:          *)
(*   - TextChunker           (src/app/ingestion/chunker.py)                *)
(*   - HybridRetriever       (src/app/retrieval/hybrid.py, bm25.py,        *)
(*                            vector_store.py, core/security.py)           *)
(*   - IntentDetector        (src/app/workflows/intent.py)                 *)
(*   - WorkflowOrchestrator  (src/app/workflows/orchestrator.py)           *)
(*   - BM25Index, embedding cache (src/app/retrieval/bm25.py,              *)
(*                            src/app/ingestion/embedder.py)               *)
(*   - OpenAIProvider.generate (src/app/services/llm.py)                   *)
(*   - HybridRetriever.retrieve_for_context (src/app/retrieval/hybrid.py)  *)
(*                                                                         *)
(* Text is a sequence of one-character strings.  count_tokens is the       *)
(* len(text) // 4 fallback of TextChunker.count_tokens (the tiktoken       *)
(* encoder is an external library).  Character spans (start_char,          *)
(* end_char) and the random chunk_id of a chunk are not modelled.          *)
(*                                                                         *)
(* Each component has its own specification (SpecChunker, ...); the        *)
(* variables of the other components stay at their idle value.             *)
(***************************************************************************)
EXTENDS Integers, Sequences, FiniteSets, TLC

VARIABLES
    \* ---- TextChunker.chunk_document / _create_chunks
    ck_pc,                      \* "idle" | "call" | "loop" | "done"
    text,                       \* the document text passed to chunk_document
    document_id,                \* the document id passed to chunk_document
    config,                     \* ChunkingConfig
    segments,                   \* list[TextSegment] still to be consumed
    chunks,                     \* list[DocumentChunk] built so far / returned
    current_chunk_text,
    chunk_index,
    current_heading_hierarchy,
    current_section_title,      \* <<>> is None, <<t>> is the title t
    last_discarded              \* TRUE when the trailing buffer was non-blank and dropped

ck_vars == <<ck_pc, text, document_id, config, segments, chunks,
             current_chunk_text, chunk_index, current_heading_hierarchy,
             current_section_title, last_discarded>>

VARIABLES
    \* ---- HybridRetriever.retrieve
    rt_pc,                      \* "idle" | "dense" | "sparse" | "merge" | "done" | "raised"
    user_role,
    top_k,
    client_name,                \* "" is None
    document_types,             \* {} is None or the empty list (both falsy)
    use_dense,                  \* HybridSearchConfig.use_dense
    use_sparse,                 \* HybridSearchConfig.use_sparse
    dense_results,
    sparse_results,
    dense_failed,               \* the dense side raised (embedding or vector search)
    sparse_failed,              \* the sparse search raised
    rt_result                   \* the list retrieve returns

rt_vars == <<rt_pc, user_role, top_k, client_name, document_types, use_dense,
             use_sparse, dense_results, sparse_results, dense_failed, sparse_failed,
             rt_result>>

VARIABLES
    \* ---- IntentDetector.detect
    in_pc,                      \* "idle" | "detect" | "llm" | "done" | "raised"
    query,                      \* the query, as its sequence of lower-cased tokens
    intent_enabled,             \* settings.feature_intent_detection_enabled
    llm_configured,             \* self.llm_service is set
    use_llm_fallback,
    rule_result,                \* IntentMatch of the rule phase
    intent_match,               \* the IntentMatch detect returns
    llm_calls,                  \* number of classifier calls made by this detect
    llm_reply                   \* what the last classifier call gave: a reply, or it raised

in_vars == <<in_pc, query, intent_enabled, llm_configured, use_llm_fallback,
             rule_result, intent_match, llm_calls, llm_reply>>

VARIABLES
    \* ---- WorkflowOrchestrator.process_query
    pq_pc,                      \* "idle" | "classify" | "retrieve" | "build_prompt" |
                                \* "generate" | "parse" | "assemble" | "done"
    request,                    \* the QueryRequest
    structured_enabled,         \* settings.feature_structured_output_enabled
    detection_enabled,          \* settings.feature_intent_detection_enabled
    task_type,                  \* local task_type ("none" until it is set)
    intent_confidence,          \* local intent_confidence, in tenths
    documents,                  \* number of documents retrieve_for_context returned
    context,                    \* local context: "none" | "sources" | "no_documents"
    detector_calls,             \* how often the run invoked the rule phase / the classifier
    raw_response,               \* text the generative call returned (tokens)
    parsed_response,            \* what _parse_response returned
    parse_raised,               \* _parse_response raised
    outcome,                    \* the QueryResponse process_query returns
    stages                      \* the stages started so far, in order

pq_vars == <<pq_pc, request, structured_enabled, detection_enabled, task_type,
             intent_confidence, documents, context, detector_calls,
             raw_response, parsed_response, parse_raised,
             outcome, stages>>

VARIABLES
    \* ---- the shared BM25Index and EmbeddingService (module singletons)
    ix_op,                      \* the last call: "none" | "add_documents" | "remove_document"
                                \*   | "clear" | "search" | "embed_text"
    index_documents,            \* BM25Index.documents
    bm25,                       \* BM25Index.bm25: NoIndex is None, else the corpus it was built from
    _needs_rebuild,             \* BM25Index._needs_rebuild
    _cache,                     \* EmbeddingService._cache: the texts that have an entry
    ix_result,                  \* what the search just made returned, and its filter
    ix_removed                  \* chunk ids removed or cleared and not added again since

ix_vars == <<ix_op, index_documents, bm25, _needs_rebuild, _cache, ix_result, ix_removed>>

VARIABLES
    \* ---- OpenAIProvider.generate under tenacity's @retry
    gen_pc,                     \* "idle" | "attempt" | "returned" | "raised"
    messages,                   \* roles of the messages sent to the completion API
    attempt_number,             \* attempts made so far in this call
    attempt_errors,             \* str(e) and the exception raised, per failed attempt
    gen_outcome                 \* what the caller receives

gp_vars == <<gen_pc, messages, attempt_number, attempt_errors, gen_outcome>>

VARIABLES
    \* ---- HybridRetriever.retrieve_for_context
    rfc_pc,                     \* "idle" | "returned"
    max_tokens,                 \* the max_tokens argument of the last call
    rfc_top_k,                  \* the top_k it passed to retrieve
    rfc_documents,              \* the documents it returned
    rfc_context                 \* the context string it returned, as its pieces

rc_vars == <<rfc_pc, max_tokens, rfc_top_k, rfc_documents, rfc_context>>

vars == <<ck_vars, rt_vars, in_vars, pq_vars, ix_vars, gp_vars, rc_vars>>

\* the variables each component leaves alone
ck_rest == <<rt_vars, in_vars, pq_vars, ix_vars, gp_vars, rc_vars>>
rt_rest == <<ck_vars, in_vars, pq_vars, ix_vars, gp_vars, rc_vars>>
in_rest == <<ck_vars, rt_vars, pq_vars, ix_vars, gp_vars, rc_vars>>
pq_rest == <<ck_vars, rt_vars, in_vars, ix_vars, gp_vars, rc_vars>>
ix_rest == <<ck_vars, rt_vars, in_vars, pq_vars, gp_vars, rc_vars>>
gp_rest == <<ck_vars, rt_vars, in_vars, pq_vars, ix_vars, rc_vars>>
rc_rest == <<ck_vars, rt_vars, in_vars, pq_vars, ix_vars, gp_vars>>

(***************************************************************************)
(* Generic helpers                                                         *)
(***************************************************************************)
SetMin(S) == CHOOSE x \in S : \A y \in S : x <= y
SetMax(S) == CHOOSE x \in S : \A y \in S : x >= y


Contains(s, p) == \E i \in 0..(Len(s) - Len(p)) : SubSeq(s, i + 1, i + Len(p)) = p

(***************************************************************************)
(* Python str helpers used by the chunker                                  *)
(***************************************************************************)
IsSpace(c) == c \in {" ", "\n", "\t"}
IsTerminator(c) == c \in {".", "!", "?"}
IsUpperChar(c) == c \in {"A", "B"}
IsLowerChar(c) == c \in {"a", "b"}
IsDigit(c) == c \in {"1", "2"}
\* the backquote character (written "~": a backquote cannot appear in a string here)
BackQuote == "~"

\* a strip() that takes off blanks only
StripSpacesOnly(s) ==
    LET idx == {i \in 1..Len(s) : s[i] # " "}
    IN IF idx = {} THEN <<>> ELSE SubSeq(s, SetMin(idx), SetMax(idx))
\* str.strip()
Strip(s) ==
    LET idx == {i \in 1..Len(s) : ~IsSpace(s[i])}
    IN IF idx = {} THEN <<>> ELSE SubSeq(s, SetMin(idx), SetMax(idx))

\* str.isupper(): at least one cased character and no lowercase one
IsUpperStr(s) ==
    /\ \E i \in 1..Len(s) : IsUpperChar(s[i])
    /\ \A i \in 1..Len(s) : ~IsLowerChar(s[i])

\* text.split("\n")
RECURSIVE SplitLines(_)
SplitLines(s) ==
    LET nl == {i \in 1..Len(s) : s[i] = "\n"}
    IN IF nl = {} THEN <<s>>
       ELSE <<SubSeq(s, 1, SetMin(nl) - 1)>>
            \o SplitLines(SubSeq(s, SetMin(nl) + 1, Len(s)))

\* end of the maximal whitespace run that starts at position i (i - 1 if none)
RunEnd(s, i) ==
    LET stop == {j \in i..Len(s) : ~IsSpace(s[j])}
    IN IF stop = {} THEN Len(s) ELSE SetMin(stop) - 1

(***************************************************************************)
(* TextChunker                                                             *)
(***************************************************************************)
\* TextChunker.count_tokens, tokenizer unavailable: len(text) // 4
count_tokens(s) == Len(s) \div 4

\* re.split(r"\n\s*\n", text)
RECURSIVE SplitBlocks(_)
SplitBlocks(s) ==
    LET ends(i) == {p \in (i + 1)..Len(s) :
                       s[p] = "\n" /\ \A q \in (i + 1)..(p - 1) : IsSpace(s[q])}
        starts == {i \in 1..Len(s) : s[i] = "\n" /\ ends(i) # {}}
    IN IF starts = {} THEN <<s>>
       ELSE LET i == SetMin(starts)
                p == SetMax(ends(i))
            IN <<SubSeq(s, 1, i - 1)>> \o SplitBlocks(SubSeq(s, p + 1, Len(s)))

\* number of leading '#' characters
HashRun(s) ==
    LET stop == {j \in 1..Len(s) : s[j] # "#"}
    IN IF stop = {} THEN Len(s) ELSE SetMin(stop) - 1

IsUnderline(s, c) == Len(s) >= 1 /\ \A i \in 1..Len(s) : s[i] = c

\* TextChunker._classify_segment: [segment_type, heading_level] (0 is None)
_classify_segment(s) ==
    LET lines == SplitLines(s)
        first_line == Strip(lines[1])
        h == HashRun(first_line)
    IN IF h >= 1 /\ h <= 6 /\ Len(first_line) > h /\ IsSpace(first_line[h + 1])
       THEN [segment_type |-> "heading", heading_level |-> h]
       ELSE IF Len(lines) >= 2 /\ IsUnderline(Strip(lines[2]), "=")
       THEN [segment_type |-> "heading", heading_level |-> 1]
       ELSE IF Len(lines) >= 2 /\ IsUnderline(Strip(lines[2]), "-")
       THEN [segment_type |-> "heading", heading_level |-> 2]
       ELSE IF IsUpperStr(first_line) /\ Len(first_line) < 100
       THEN [segment_type |-> "heading", heading_level |-> 2]
       ELSE IF \/ (Len(first_line) >= 2 /\ first_line[1] \in {"-", "*", "+"}
                     /\ IsSpace(first_line[2]))
               \/ (\E d \in 1..Len(first_line) :
                     /\ \A j \in 1..d : IsDigit(first_line[j])
                     /\ Len(first_line) >= d + 2
                     /\ first_line[d + 1] \in {".", ")"}
                     /\ IsSpace(first_line[d + 2]))
       THEN [segment_type |-> "list", heading_level |-> 0]
       ELSE IF Len(s) >= 3 /\ SubSeq(s, 1, 3) = <<BackQuote, BackQuote, BackQuote>>
       THEN [segment_type |-> "code", heading_level |-> 0]
       ELSE [segment_type |-> "paragraph", heading_level |-> 0]

\* TextChunker._segment_text: blank blocks are skipped, the others stripped and classified
RECURSIVE SegmentsOf(_)
SegmentsOf(blocks) ==
    IF blocks = <<>> THEN <<>>
    ELSE LET block == Strip(Head(blocks))
         IN IF block = <<>> THEN SegmentsOf(Tail(blocks))
            ELSE <<[text |-> block,
                    segment_type |-> _classify_segment(block).segment_type,
                    heading_level |-> _classify_segment(block).heading_level]>>
                 \o SegmentsOf(Tail(blocks))

_segment_text(s) == SegmentsOf(SplitBlocks(s))

\* TextChunker._clean_heading
_clean_heading(s) ==
    LET h == HashRun(s)
        a == IF h >= 1 THEN SubSeq(s, RunEnd(s, h + 1) + 1, Len(s)) ELSE s
        under == {i \in 1..(Len(a) - 1) :
                     /\ a[i] = "\n"
                     /\ \A j \in (i + 1)..Len(a) : a[j] \in {"=", "-"}}
        b == IF under = {} THEN a ELSE SubSeq(a, 1, SetMin(under) - 1)
    IN Strip(b)

\* TextChunker._get_overlap_text
_get_overlap_text(cfg, s) ==
    IF s = <<>> \/ cfg.overlap = 0 THEN <<>>
    ELSE LET overlap_chars == cfg.overlap * 4
         IN IF Len(s) <= overlap_chars THEN s
            ELSE LET overlap_text == SubSeq(s, Len(s) - overlap_chars + 1, Len(s))
                     hits == {i \in 1..(Len(overlap_text) - 1) :
                                 /\ IsTerminator(overlap_text[i])
                                 /\ IsSpace(overlap_text[i + 1])}
                 IN IF cfg.respect_sentence_boundaries /\ hits # {}
                    THEN SubSeq(overlap_text,
                                RunEnd(overlap_text, SetMin(hits) + 1) + 1,
                                Len(overlap_text))
                    ELSE overlap_text

\* re.split(r"(?<=[.!?])\s+", text)
RECURSIVE SplitSentences(_)
SplitSentences(s) ==
    LET hits == {i \in 2..Len(s) : IsSpace(s[i]) /\ IsTerminator(s[i - 1])}
    IN IF hits = {} THEN <<s>>
       ELSE LET i == SetMin(hits)
            IN <<SubSeq(s, 1, i - 1)>>
               \o SplitSentences(SubSeq(s, RunEnd(s, i) + 1, Len(s)))

\* TextChunker._split_large_segment: the loop over the sentences
RECURSIVE PackSentences(_, _, _, _)
PackSentences(sentences, current_chunk, out, target_tokens) ==
    IF sentences = <<>>
    THEN IF current_chunk # <<>> THEN Append(out, current_chunk) ELSE out
    ELSE LET sentence == Head(sentences)
         IN IF count_tokens(current_chunk \o <<" ">> \o sentence) > target_tokens
            THEN PackSentences(Tail(sentences), sentence,
                               IF current_chunk # <<>> THEN Append(out, current_chunk)
                                                       ELSE out,
                               target_tokens)
            ELSE PackSentences(Tail(sentences),
                               IF current_chunk # <<>>
                               THEN current_chunk \o <<" ">> \o sentence
                               ELSE sentence,
                               out, target_tokens)

_split_large_segment(cfg, s) ==
    PackSentences(SplitSentences(s), <<>>, <<>>, cfg.target_size - cfg.overlap)

\* TextChunker._create_chunk
_create_chunk(t, idx, docid, hier, title) ==
    [document_id |-> docid,
     content |-> Strip(t),
     chunk_index |-> idx,
     section_title |-> title,
     heading_hierarchy |-> hier,
     token_count |-> count_tokens(t)]

\* a chunk_index that is not advanced
NextIndexStuck(idx) == idx
\* next value of chunk_index after a chunk was appended (lines 204 and 232)
NextIndex(idx) == idx + 1

\* _create_chunks, lines 215-236: the loop over the sub-chunks of a large segment.
\* st = [cur |-> current_chunk_text, chunks |-> chunks, idx |-> chunk_index]
RECURSIVE SubChunkLoop(_, _, _, _, _, _)
SubChunkLoop(sub_chunks, st, cfg, docid, hier, title) ==
    IF sub_chunks = <<>> THEN st
    ELSE LET joined == (IF Strip(st.cur) # <<>> THEN st.cur \o <<"\n", "\n">> ELSE st.cur)
                       \o Head(sub_chunks)
         IN IF count_tokens(joined) >= cfg.target_size
            THEN SubChunkLoop(Tail(sub_chunks),
                              [cur |-> _get_overlap_text(cfg, joined),
                               chunks |-> Append(st.chunks,
                                                 _create_chunk(joined, st.idx, docid, hier, title)),
                               idx |-> NextIndex(st.idx)],
                              cfg, docid, hier, title)
            ELSE SubChunkLoop(Tail(sub_chunks),
                              [cur |-> joined, chunks |-> st.chunks, idx |-> st.idx],
                              cfg, docid, hier, title)

\* _create_chunks, lines 176-242: one iteration of the loop over the segments
SegmentStep(segment, st, cfg, docid, hier0, title0) ==
    LET is_heading == segment.segment_type = "heading" /\ segment.heading_level # 0
        heading_text == _clean_heading(segment.text)
        hier == IF is_heading
                THEN Append(SubSeq(hier0, 1, segment.heading_level - 1), heading_text)
                ELSE hier0
        title == IF is_heading THEN <<heading_text>> ELSE title0
        segment_tokens == count_tokens(segment.text)
        current_tokens == count_tokens(st.cur)
        exceeds == current_tokens + segment_tokens > cfg.target_size
        emit == exceeds /\ Strip(st.cur) # <<>>
        st1 == IF exceeds
               THEN [cur |-> _get_overlap_text(cfg, st.cur),
                     chunks |-> IF emit
                                THEN Append(st.chunks,
                                            _create_chunk(st.cur, st.idx, docid, hier, title))
                                ELSE st.chunks,
                     idx |-> IF emit THEN NextIndex(st.idx) ELSE st.idx]
               ELSE st
        st2 == IF segment_tokens > cfg.max_size
               THEN SubChunkLoop(_split_large_segment(cfg, segment.text), st1,
                                 cfg, docid, hier, title)
               ELSE [st1 EXCEPT !.cur =
                        (IF Strip(st1.cur) # <<>> THEN st1.cur \o <<"\n", "\n">> ELSE st1.cur)
                        \o segment.text]
    IN [cur |-> st2.cur, chunks |-> st2.chunks, idx |-> st2.idx,
        hier |-> hier, title |-> title]

KeepAnyTail(cfg, t) == Strip(t) # <<>>
\* _create_chunks, line 245: is the trailing buffer emitted?
KeepTail(cfg, t) == Strip(t) # <<>> /\ count_tokens(t) >= cfg.min_size

\* chunk_document, line 80: the blank-input guard
IsBlank(s) == Strip(s) = <<>>

(***************************************************************************)
(* Inputs of the chunker                                                   *)
(***************************************************************************)
MaxPieces == 4

Pieces ==
    { <<"a", "a", "a", "a", "a", "a", "a", ".">>,
      <<"b", "b", "b", "b">>,
      <<"#", " ", "A", "b">>,
      <<"b">>,
      <<" ">>,
      <<"\t">>,
      <<"\n", "\n">> }

RECURSIVE TextsUpTo(_)
TextsUpTo(n) ==
    IF n = 0 THEN {<<>>}
    ELSE LET shorter == TextsUpTo(n - 1)
         IN shorter \cup {t \o p : t \in shorter, p \in Pieces}

Texts == TextsUpTo(MaxPieces)

Configs ==
    { [target_size |-> 2, min_size |-> 1, max_size |-> 3, overlap |-> 1,
       respect_sentence_boundaries |-> TRUE],
      [target_size |-> 2, min_size |-> 2, max_size |-> 3, overlap |-> 1,
       respect_sentence_boundaries |-> TRUE],
      [target_size |-> 2, min_size |-> 0, max_size |-> 3, overlap |-> 0,
       respect_sentence_boundaries |-> FALSE] }

DocIds == {"doc1", "doc2"}

NoConfig == [target_size |-> 0, min_size |-> 0, max_size |-> 0, overlap |-> 0,
             respect_sentence_boundaries |-> FALSE]

(***************************************************************************)
(* chunk_document as a state machine                                       *)
(***************************************************************************)
ChunkerIdle ==
    /\ ck_pc = "idle"
    /\ text = <<>>
    /\ document_id = "doc1"
    /\ config = NoConfig
    /\ segments = <<>>
    /\ chunks = <<>>
    /\ current_chunk_text = <<>>
    /\ chunk_index = 0
    /\ current_heading_hierarchy = <<>>
    /\ current_section_title = <<>>
    /\ last_discarded = FALSE

ChunkerInit ==
    /\ ck_pc = "call"
    /\ text \in Texts
    /\ document_id \in DocIds
    /\ config \in Configs
    /\ segments = <<>>
    /\ chunks = <<>>
    /\ current_chunk_text = <<>>
    /\ chunk_index = 0
    /\ current_heading_hierarchy = <<>>
    /\ current_section_title = <<>>
    /\ last_discarded = FALSE

\* chunk_document lines 80-85: blank input returns [], otherwise segment the text
ChunkDocumentBlank ==
    /\ ck_pc = "call"
    /\ IsBlank(text)
    /\ ck_pc' = "done"
    /\ UNCHANGED <<text, document_id, config, segments, chunks, current_chunk_text,
                   chunk_index, current_heading_hierarchy, current_section_title,
                   last_discarded>>
    /\ UNCHANGED ck_rest

ChunkDocumentSegment ==
    /\ ck_pc = "call"
    /\ ~IsBlank(text)
    /\ segments' = _segment_text(text)
    /\ ck_pc' = "loop"
    /\ UNCHANGED <<text, document_id, config, chunks, current_chunk_text,
                   chunk_index, current_heading_hierarchy, current_section_title,
                   last_discarded>>
    /\ UNCHANGED ck_rest

\* _create_chunks: one iteration of `for segment in segments`
CreateChunksStep ==
    /\ ck_pc = "loop"
    /\ segments # <<>>
    /\ LET r == SegmentStep(Head(segments),
                            [cur |-> current_chunk_text, chunks |-> chunks,
                             idx |-> chunk_index],
                            config, document_id,
                            current_heading_hierarchy, current_section_title)
       IN /\ current_chunk_text' = r.cur
          /\ chunks' = r.chunks
          /\ chunk_index' = r.idx
          /\ current_heading_hierarchy' = r.hier
          /\ current_section_title' = r.title
    /\ segments' = Tail(segments)
    /\ UNCHANGED <<ck_pc, text, document_id, config, last_discarded>>
    /\ UNCHANGED ck_rest

\* _create_chunks lines 244-257: the trailing buffer, then return
CreateChunksFinish ==
    /\ ck_pc = "loop"
    /\ segments = <<>>
    /\ IF KeepTail(config, current_chunk_text)
       THEN /\ chunks' = Append(chunks,
                                _create_chunk(current_chunk_text, chunk_index, document_id,
                                              current_heading_hierarchy,
                                              current_section_title))
            /\ last_discarded' = FALSE
       ELSE /\ chunks' = chunks
            /\ last_discarded' = (Strip(current_chunk_text) # <<>>)
    /\ ck_pc' = "done"
    /\ UNCHANGED <<text, document_id, config, segments, current_chunk_text,
                   chunk_index, current_heading_hierarchy, current_section_title>>
    /\ UNCHANGED ck_rest

ChunkerNext ==
    \/ ChunkDocumentBlank
    \/ ChunkDocumentSegment
    \/ CreateChunksStep
    \/ CreateChunksFinish


(***************************************************************************)
(* Role based access (core/security.py)                                    *)
(***************************************************************************)
UserRoles == {"analyst", "consultant", "partner"}

\* UserRole.access_level
access_level(role) ==
    CASE role = "analyst" -> 1
      [] role = "consultant" -> 2
      [] role = "partner" -> 3

can_access_same_level(role, required_role) ==
    access_level(role) = access_level(required_role)
\* UserRole.can_access
can_access(role, required_role) == access_level(role) >= access_level(required_role)

DOCUMENT_ACCESS_LEVELS ==
    [t \in {"playbook", "guideline", "template", "training"} |-> "analyst"]
    @@ [t \in {"client_summary", "engagement", "proposal"} |-> "consultant"]
    @@ [t \in {"partner_memo", "fee_structure", "strategic_plan", "confidential"}
          |-> "partner"]

\* get_document_access_level: unknown types default to analyst
get_document_access_level(document_type) ==
    IF document_type \in DOMAIN DOCUMENT_ACCESS_LEVELS
    THEN DOCUMENT_ACCESS_LEVELS[document_type]
    ELSE "analyst"

\* get_accessible_document_types / get_role_filter
get_accessible_document_types(role) ==
    {t \in DOMAIN DOCUMENT_ACCESS_LEVELS : can_access(role, DOCUMENT_ACCESS_LEVELS[t])}

(***************************************************************************)
(* Scores: exact fractions [n, d] with d > 0 (the code uses floats)        *)
(***************************************************************************)
FracLess(a, b) == a.n * b.d < b.n * a.d
FracEq(a, b) == a.n * b.d = b.n * a.d
FracAdd(a, b) == [n |-> a.n * b.d + b.n * a.d, d |-> a.d * b.d]
\* min(x, 1.0)
FracCap1(a) == IF a.n >= a.d THEN [n |-> 1, d |-> 1] ELSE a

(***************************************************************************)
(* The indexed corpus.  Every chunk is in the vector store (payload:       *)
(* document_type, client_name) and in the BM25 index (metadata as          *)
(* api/routes/ingest.py writes it: document_type, no client_name).         *)
(***************************************************************************)
Corpus ==
    << [chunk_id |-> "A", document_type |-> "playbook", client_name |-> "acme"],
       [chunk_id |-> "B", document_type |-> "engagement", client_name |-> "acme"],
       [chunk_id |-> "C", document_type |-> "partner_memo", client_name |-> "globex"] >>

CorpusIdx == 1..Len(Corpus)

\* HybridSearchConfig defaults; the weights are in tenths (0.7 and 0.3)
dense_weight == 7
sparse_weight == 3
rrf_k == 60
\* hybrid.py line 86: fetch_k = min(top_k * 2, 50)
FetchCap == 50

Min2(a, b) == IF a <= b THEN a ELSE b
Take(s, n) == SubSeq(s, 1, Min2(n, Len(s)))
SeqRange(s) == {s[i] : i \in 1..Len(s)}

\* retrieve lines 61-67: the document types the search may return
AllowedTypes(role, requested) ==
    IF requested # {}
    THEN {t \in requested : t \in get_accessible_document_types(role)}
    ELSE get_accessible_document_types(role)

\* retrieve lines 69-76: filter_dict (client_name "" means the key is absent)
FilterDict(role, requested, client) ==
    [document_type |-> AllowedTypes(role, requested), client_name |-> client]

\* VectorStore.search lines 165-187: the conditions of the Qdrant filter.  A list
\* value adds a MatchAny condition only when it is not empty.
DenseMatches(doc, filter_dict) ==
    /\ (filter_dict.document_type # {} => doc.document_type \in filter_dict.document_type)
    /\ (filter_dict.client_name # "" => doc.client_name = filter_dict.client_name)

\* VectorStore.search lines 190-217: Qdrant returns at most `limit` distinct points
\* that satisfy the filter, in an order of its own; rank is the position
DenseHitLists(filter_dict, limit) ==
    {h \in UNION {[1..n -> CorpusIdx] : n \in 0..Min2(limit, Len(Corpus))} :
        /\ \A i, j \in 1..Len(h) : i # j => h[i] # h[j]
        /\ \A i \in 1..Len(h) : DenseMatches(Corpus[h[i]], filter_dict)}

DenseDocs(h) ==
    [i \in 1..Len(h) |-> [chunk_id |-> Corpus[h[i]].chunk_id,
                          document_type |-> Corpus[h[i]].document_type,
                          score |-> [n |-> 1, d |-> 1],
                          rank |-> i - 1]]

\* BM25Index._apply_filters: a document whose metadata fails a filter gets score 0.
\* The BM25 metadata has no client_name, so any client filter rejects every document.
BM25Passes(doc, filter_dict) ==
    /\ doc.document_type \in filter_dict.document_type
    /\ filter_dict.client_name = ""

_apply_filters(scores, filter_dict) ==
    [i \in CorpusIdx |-> IF BM25Passes(Corpus[i], filter_dict) THEN scores[i] ELSE 0]

\* sorted(range(len(scores)), key=lambda i: scores[i], reverse=True): stable
RECURSIVE SortedDesc(_, _)
SortedDesc(scores, S) ==
    IF S = {} THEN <<>>
    ELSE LET best == CHOOSE i \in S : \A j \in S :
                        scores[i] > scores[j] \/ (scores[i] = scores[j] /\ i <= j)
         IN <<best>> \o SortedDesc(scores, S \ {best})

\* BM25Index.search lines 114-136: results with a positive score; rank is the
\* position among top_indices (skipped entries keep their position number)
RECURSIVE BM25Results(_, _, _)
BM25Results(top_indices, scores, pos) ==
    IF pos > Len(top_indices) THEN <<>>
    ELSE LET idx == top_indices[pos]
         IN (IF scores[idx] <= 0 THEN <<>>
             ELSE <<[chunk_id |-> Corpus[idx].chunk_id,
                     document_type |-> Corpus[idx].document_type,
                     score |-> FracCap1([n |-> scores[idx], d |-> 30]),
                     rank |-> pos - 1]>>)
            \o BM25Results(top_indices, scores, pos + 1)

\* BM25Index.search on a built index; raw holds the BM25Okapi scores of the query
BM25Search(raw, limit, filter_dict) ==
    LET scores == _apply_filters(raw, filter_dict)
    IN BM25Results(Take(SortedDesc(scores, CorpusIdx), limit), scores, 1)

\* a source call without the try/except
SourceErrorUncaught(raised) == raised
\* retrieve lines 93-109 and 113-127: try/except Exception around each source.
\* The result says whether the exception leaves retrieve.
SourceErrorLeaves(raised) == FALSE

\* _reciprocal_rank_fusion lines 161-175: the scores dict, in insertion order
RRFTerm(weight, rank) == [n |-> weight, d |-> rrf_k + rank]

RECURSIVE AddDenseScores(_, _)
AddDenseScores(docs, d) ==
    IF docs = <<>> THEN d
    ELSE LET doc == Head(docs)
         IN AddDenseScores(Tail(docs),
               [keys |-> IF doc.chunk_id \in SeqRange(d.keys) THEN d.keys
                         ELSE Append(d.keys, doc.chunk_id),
                val |-> (doc.chunk_id :> [score |-> RRFTerm(dense_weight, doc.rank),
                                          doc |-> doc]) @@ d.val])

\* a score that is overwritten instead of summed
CombineOverwrite(existing_score, rrf_score) == rrf_score
\* _reciprocal_rank_fusion line 172: the scores of one chunk add up
Combine(existing_score, rrf_score) == FracAdd(existing_score, rrf_score)

RECURSIVE AddSparseScores(_, _)
AddSparseScores(docs, d) ==
    IF docs = <<>> THEN d
    ELSE LET doc == Head(docs)
             rrf_score == RRFTerm(sparse_weight, doc.rank)
         IN AddSparseScores(Tail(docs),
               IF doc.chunk_id \in SeqRange(d.keys)
               THEN [keys |-> d.keys,
                     val |-> (doc.chunk_id :>
                                 [score |-> Combine(d.val[doc.chunk_id].score, rrf_score),
                                  doc |-> d.val[doc.chunk_id].doc]) @@ d.val]
               ELSE [keys |-> Append(d.keys, doc.chunk_id),
                     val |-> (doc.chunk_id :> [score |-> rrf_score, doc |-> doc]) @@ d.val])

\* the items left in the insertion order of the dict
ItemsUnsorted(d, S) == d.keys
\* sorted(scores.items(), key=lambda x: x[1][0], reverse=True): stable
RECURSIVE SortItemsDesc(_, _)
SortItemsDesc(d, S) ==
    IF S = {} THEN <<>>
    ELSE LET best == CHOOSE i \in S : \A j \in S :
                        \/ FracLess(d.val[d.keys[j]].score, d.val[d.keys[i]].score)
                        \/ (FracEq(d.val[d.keys[i]].score, d.val[d.keys[j]].score) /\ i <= j)
         IN <<d.keys[best]>> \o SortItemsDesc(d, S \ {best})

\* rank given to the fused item at list position pos (1-based)
FusedRank(doc, pos) == pos - 1

\* HybridRetriever._reciprocal_rank_fusion
_reciprocal_rank_fusion(dense, sparse) ==
    LET scores == AddSparseScores(sparse,
                     AddDenseScores(dense, [keys |-> <<>>, val |-> <<>>]))
        sorted_items == SortItemsDesc(scores, 1..Len(scores.keys))
    IN [i \in 1..Len(sorted_items) |->
          LET e == scores.val[sorted_items[i]]
          IN [chunk_id |-> e.doc.chunk_id,
              document_type |-> e.doc.document_type,
              score |-> FracCap1(e.score),
              rank |-> FusedRank(e.doc, i)]]

\* a result list that is not cut
Uncut(results, k) == results
\* retrieve lines 136, 140 and 147: results[:top_k]
Cut(results, k) == Take(results, k)

RetrieveReturnValue(dense, sparse, k) ==
    IF dense = <<>> /\ sparse = <<>> THEN <<>>
    ELSE IF dense = <<>> THEN Cut(sparse, k)
    ELSE IF sparse = <<>> THEN Cut(dense, k)
    ELSE Cut(_reciprocal_rank_fusion(dense, sparse), k)

(***************************************************************************)
(* Inputs of retrieve                                                      *)
(***************************************************************************)
MaxTopK == 2

RequestedTypes ==
    { {}, {"playbook"}, {"partner_memo"}, {"playbook", "engagement", "partner_memo"} }

ClientNames == {"", "acme"}

\* BM25Okapi.get_scores values (negative when the average idf is negative)
BM25ScoreValues == {-1, 0, 1, 2, 3}

(***************************************************************************)
(* retrieve as a state machine                                             *)
(***************************************************************************)
RetrieverIdle ==
    /\ rt_pc = "idle"
    /\ user_role = "analyst"
    /\ top_k = 1
    /\ client_name = ""
    /\ document_types = {}
    /\ use_dense = TRUE
    /\ use_sparse = TRUE
    /\ dense_results = <<>>
    /\ sparse_results = <<>>
    /\ dense_failed = FALSE
    /\ sparse_failed = FALSE
    /\ rt_result = <<>>

RetrieverInit ==
    /\ rt_pc = "dense"
    /\ user_role \in UserRoles
    /\ top_k \in 1..MaxTopK
    /\ client_name \in ClientNames
    /\ document_types \in RequestedTypes
    /\ use_dense \in BOOLEAN
    /\ use_sparse \in BOOLEAN
    /\ dense_results = <<>>
    /\ sparse_results = <<>>
    /\ dense_failed = FALSE
    /\ sparse_failed = FALSE
    /\ rt_result = <<>>

fetch_k == Min2(top_k * 2, FetchCap)

\* retrieve lines 92-109, dense side disabled
DenseSkipped ==
    /\ rt_pc = "dense"
    /\ ~use_dense
    /\ rt_pc' = "sparse"
    /\ UNCHANGED <<user_role, top_k, client_name, document_types, use_dense, use_sparse,
                   dense_results, sparse_results, dense_failed, sparse_failed, rt_result>>
    /\ UNCHANGED rt_rest

\* retrieve lines 92-104: embedding and vector search succeed
DenseSearch ==
    /\ rt_pc = "dense"
    /\ use_dense
    /\ \E h \in DenseHitLists(FilterDict(user_role, document_types, client_name), fetch_k) :
          dense_results' = DenseDocs(h)
    /\ rt_pc' = "sparse"
    /\ UNCHANGED <<user_role, top_k, client_name, document_types, use_dense, use_sparse,
                   sparse_results, dense_failed, sparse_failed, rt_result>>
    /\ UNCHANGED rt_rest

\* retrieve lines 105-109: embed_text or vector_store.search raised
DenseRaises ==
    /\ rt_pc = "dense"
    /\ use_dense
    /\ dense_failed' = TRUE
    /\ rt_pc' = IF SourceErrorLeaves(TRUE) THEN "raised" ELSE "sparse"
    /\ UNCHANGED <<user_role, top_k, client_name, document_types, use_dense, use_sparse,
                   dense_results, sparse_results, sparse_failed, rt_result>>
    /\ UNCHANGED rt_rest

\* retrieve lines 112-127, sparse side disabled
SparseSkipped ==
    /\ rt_pc = "sparse"
    /\ ~use_sparse
    /\ rt_pc' = "merge"
    /\ UNCHANGED <<user_role, top_k, client_name, document_types, use_dense, use_sparse,
                   dense_results, sparse_results, dense_failed, sparse_failed, rt_result>>
    /\ UNCHANGED rt_rest

\* retrieve lines 112-122: BM25 search succeeds
SparseSearch ==
    /\ rt_pc = "sparse"
    /\ use_sparse
    /\ \E raw \in [CorpusIdx -> BM25ScoreValues] :
          sparse_results' = BM25Search(raw, fetch_k,
                                       FilterDict(user_role, document_types, client_name))
    /\ rt_pc' = "merge"
    /\ UNCHANGED <<user_role, top_k, client_name, document_types, use_dense, use_sparse,
                   dense_results, dense_failed, sparse_failed, rt_result>>
    /\ UNCHANGED rt_rest

\* retrieve lines 123-127: bm25_index.search raised
SparseRaises ==
    /\ rt_pc = "sparse"
    /\ use_sparse
    /\ sparse_failed' = TRUE
    /\ rt_pc' = IF SourceErrorLeaves(TRUE) THEN "raised" ELSE "merge"
    /\ UNCHANGED <<user_role, top_k, client_name, document_types, use_dense, use_sparse,
                   dense_results, sparse_results, dense_failed, rt_result>>
    /\ UNCHANGED rt_rest

\* retrieve lines 129-147
RetrieveReturn ==
    /\ rt_pc = "merge"
    /\ rt_result' = RetrieveReturnValue(dense_results, sparse_results, top_k)
    /\ rt_pc' = "done"
    /\ UNCHANGED <<user_role, top_k, client_name, document_types, use_dense, use_sparse,
                   dense_results, sparse_results, dense_failed, sparse_failed>>
    /\ UNCHANGED rt_rest

RetrieverNext ==
    \/ DenseSkipped
    \/ DenseSearch
    \/ DenseRaises
    \/ SparseSkipped
    \/ SparseSearch
    \/ SparseRaises
    \/ RetrieveReturn

(***************************************************************************)
(* IntentDetector (workflows/intent.py)                                    *)
(*                                                                         *)
(* A query is its sequence of lower-cased tokens (the patterns are         *)
(* case-insensitive): words, and the punctuation marks "?" and "-" as      *)
(* tokens of their own.  Two neighbouring words are separated by white     *)
(* space; "-" joins its neighbours without white space.  A pattern is a    *)
(* set of variants (its alternations and optional groups written out);     *)
(* a variant is a sequence of elements, each one word out of a set,        *)
(* delimited by word boundaries and joined to its neighbour by white       *)
(* space, or a gap of any text.  Weights and confidences are in tenths.    *)
(***************************************************************************)
W(words) == [gap |-> FALSE, words |-> words]
G == [gap |-> TRUE, words |-> {}]

\* pattern.search(query) for one variant, matching from token i on
RECURSIVE MatchFrom(_, _, _)
MatchFrom(q, i, elems) ==
    IF elems = <<>> THEN TRUE
    ELSE IF Head(elems).gap
    THEN \E j \in i..(Len(q) + 1) : MatchFrom(q, j, Tail(elems))
    ELSE /\ i <= Len(q)
         /\ q[i] \in Head(elems).words
         /\ MatchFrom(q, i + 1, Tail(elems))

\* anchor "start" is ^\s*, anchor "end" is $, "none" searches every position
Search(q, pat) ==
    \E v \in pat.variants :
        CASE pat.anchor = "start" -> MatchFrom(q, 1, v)
          [] pat.anchor = "end" -> Len(q) >= Len(v) /\ MatchFrom(q, Len(q) - Len(v) + 1, v)
          [] OTHER -> \E i \in 1..Len(q) : MatchFrom(q, i, v)

P(weight, variants) == [weight |-> weight, variants |-> variants, anchor |-> "none"]

Summar == {"summary", "summarize", "summarise"}
Opportunit == {"opportunity", "opportunities"}

\* INTENT_PATTERNS, in the order of the dict
INTENT_PATTERNS ==
    << [task_type |-> "summarize_client", patterns |-> <<
           P(10, {<<W(Summar), G, W({"client"})>>}),
           P(10, {<<W({"client"}), G, W(Summar)>>}),
           P(9, {<<W({"client"}), W({"background", "overview", "profile"})>>}),
           P(8, {<<W({"tell"}), W({"me"}), W({"about"}), G, W({"client"})>>}),
           P(7, {<<W({"who"}), W({"is"}), G, W({"client"})>>}) >>],
       [task_type |-> "client_background", patterns |-> <<
           P(10, {<<W({"background"}), G, W({"client"})>>}),
           P(9, {<<W({"client"}), G, W({"history"})>>}),
           P(8, {<<W({"previous"}), W({"engagement", "engagements"})>>}) >>],
       [task_type |-> "risk_analysis", patterns |-> <<
           P(10, {<<W({"risk"}), W({"analysis", "assessment", "evaluation"})>>}),
           P(10, {<<W({"identify"}), G, W({"risk", "risks"})>>}),
           P(9, {<<W({"what"}), W({"are"}), W({"the"}), W({"risk", "risks"})>>}),
           P(8, {<<W({"risk"}), W({"factor", "factors"})>>}),
           P(7, {<<W({"potential"}),
                   W({"issue", "issues", "problem", "problems", "risk", "risks"})>>}) >>],
       [task_type |-> "opportunity_analysis", patterns |-> <<
           P(10, {<<W(Opportunit), W({"analysis"})>>}),
           P(10, {<<W({"identify"}), G, W(Opportunit)>>}),
           P(9, {<<W({"growth"}), W(Opportunit)>>}),
           P(8, {<<W({"potential"}), W(Opportunit)>>}) >>],
       [task_type |-> "draft_recommendations", patterns |-> <<
           P(10, {<<W({"draft", "write", "create"}), G,
                    W({"recommendation", "recommendations"})>>}),
           P(9, {<<W({"recommend", "recommends", "recommendation", "recommendations"}),
                   G, W({"for", "to"})>>}),
           P(9, {<<W({"what"}), W({"do"}), W({"you"}), W({"recommend"})>>,
                 <<W({"what"}), W({"should"}), W({"we", "i"}), W({"recommend"})>>}),
           P(7, {<<W({"suggestion", "suggestions"}), G, W({"for"})>>}),
           P(7, {<<W({"what"}), W({"should"}), W({"we", "they", "i"}), W({"do"})>>}) >>],
       [task_type |-> "action_items", patterns |-> <<
           P(10, {<<W({"action"}), W({"item", "items"})>>}),
           P(9, {<<W({"next"}), W({"step", "steps"})>>}),
           P(9, {<<W({"todo"}), W({"list", "item", "items"})>>,
                 <<W({"to"}), W({"-"}), W({"do"}), W({"list", "item", "items"})>>}),
           P(8, {<<W({"task", "tasks"}), W({"to"}), W({"complete", "do"})>>}),
           P(7, {<<W({"what"}), W({"needs", "has"}), W({"to"}), W({"be"}),
                   W({"done"})>>}) >>],
       [task_type |-> "executive_summary", patterns |-> <<
           P(10, {<<W({"executive"}), W(Summar)>>}),
           P(8, {<<W({"briefing"})>>}),
           P(8, {<<W({"highlevel"}), W({"overview", "summary"})>>,
                 <<W({"high"}), W({"level"}), W({"overview", "summary"})>>,
                 <<W({"high"}), W({"-"}), W({"level"}), W({"overview", "summary"})>>}),
           P(9, {<<W({"board"}), W({"summary", "briefing"})>>}) >>],
       [task_type |-> "talking_points", patterns |-> <<
           P(10, {<<W({"talking"}), W({"point", "points"})>>}),
           P(8, {<<W({"key"}), W({"message", "messages", "point", "points"})>>}),
           P(8, {<<W({"prepare"}), W({"for"}), W({"meeting", "call", "presentation"})>>,
                 <<W({"prepare"}), W({"me"}), W({"for"}),
                   W({"meeting", "call", "presentation"})>>,
                 <<W({"prepare"}), W({"for"}), W({"a"}),
                   W({"meeting", "call", "presentation"})>>,
                 <<W({"prepare"}), W({"me"}), W({"for"}), W({"a"}),
                   W({"meeting", "call", "presentation"})>>}),
           P(7, {<<W({"what"}), W({"should"}), W({"i"}), W({"say"})>>}) >>],
       [task_type |-> "compare_approaches", patterns |-> <<
           P(10, {<<W({"compare"}), G,
                    W({"approach", "approaches", "option", "options",
                       "alternative", "alternatives"})>>}),
           P(9, {<<W({"pro", "pros"}), W({"and"}), W({"con", "cons"})>>,
                 <<W({"advantage", "advantages"}), W({"and"}),
                   W({"disadvantage", "disadvantages"})>>}),
           P(8, {<<W({"which"}), W({"is", "option", "approach"}), W({"better", "best"})>>}),
           P(7, {<<W({"difference"}), W({"between"})>>}) >>],
       [task_type |-> "research_topic", patterns |-> <<
           P(10, {<<W({"research"}), G, W({"topic"})>>}),
           P(8, {<<W({"what"}), W({"do"}), W({"we"}), W({"know"}), W({"about"})>>,
                 <<W({"what"}), W({"does"}), W({"the"}), W({"know"}), W({"about"})>>}),
           P(8, {<<W({"find"}), W({"information", "detail", "details"}),
                   W({"on", "about"})>>}),
           P(6, {<<W({"look"}), W({"up"})>>}) >>],
       [task_type |-> "question_answer", patterns |-> <<
           [weight |-> 3, anchor |-> "start",
            variants |-> {<<W({"what", "who", "when", "where", "why", "how"})>>}],
           [weight |-> 2, anchor |-> "end", variants |-> {<<W({"?"})>>}] >>] >>

\* TaskType values
TaskTypes == {INTENT_PATTERNS[i].task_type : i \in 1..Len(INTENT_PATTERNS)}

\* confidence thresholds, in tenths
RULE_CONFIDENCE_THRESHOLD == 6
LLM_FALLBACK_THRESHOLD == 4

\* _detect_with_rules lines 150-160: the indexes of the matched patterns of an entry
Matched(q, entry) ==
    {k \in 1..Len(entry.patterns) : Search(q, entry.patterns[k])}

\* max_weight over the matched patterns of an entry
MaxWeight(q, entry) == SetMax({entry.patterns[k].weight : k \in Matched(q, entry)})

\* models/queries.py: the members of TaskType in declaration order
TaskTypeEnum ==
    <<"question_answer", "summarize_client", "client_background", "risk_analysis",
      "opportunity_analysis", "draft_recommendations", "action_items",
      "executive_summary", "talking_points", "compare_approaches", "research_topic">>

_detect_with_rules_last(q) ==
    LET scored == {c \in 1..Len(INTENT_PATTERNS) : Matched(q, INTENT_PATTERNS[c]) # {}}
    IN IF scored = {}
       THEN [task_type |-> "question_answer", confidence |-> 3, method |-> "rule"]
       ELSE LET best == CHOOSE c \in scored : \A o \in scored :
                           \/ MaxWeight(q, INTENT_PATTERNS[c])
                                  > MaxWeight(q, INTENT_PATTERNS[o])
                           \/ (MaxWeight(q, INTENT_PATTERNS[c])
                                  = MaxWeight(q, INTENT_PATTERNS[o])
                               /\ c >= o)
            IN [task_type |-> INTENT_PATTERNS[best].task_type,
                confidence |-> MaxWeight(q, INTENT_PATTERNS[best]),
                method |-> "rule"]

\* IntentDetector._detect_with_rules
_detect_with_rules(q) ==
    LET scored == {c \in 1..Len(INTENT_PATTERNS) : Matched(q, INTENT_PATTERNS[c]) # {}}
    IN IF scored = {}
       THEN [task_type |-> "question_answer", confidence |-> 3, method |-> "rule"]
       ELSE LET best == CHOOSE c \in scored : \A o \in scored :
                           \/ MaxWeight(q, INTENT_PATTERNS[c]) > MaxWeight(q, INTENT_PATTERNS[o])
                           \/ (MaxWeight(q, INTENT_PATTERNS[c]) = MaxWeight(q, INTENT_PATTERNS[o])
                               /\ c <= o)
            IN [task_type |-> INTENT_PATTERNS[best].task_type,
                confidence |-> MaxWeight(q, INTENT_PATTERNS[best]),
                method |-> "rule"]

\* float(text) for the replies the model enumerates: [ok, value in tenths];
\* ok = FALSE is the ValueError
FloatOf(t) ==
    CASE t = "0.2" -> [ok |-> TRUE, value |-> 2]
      [] t = "0.3" -> [ok |-> TRUE, value |-> 3]
      [] t = "0.9" -> [ok |-> TRUE, value |-> 9]
      [] t = "1.5" -> [ok |-> TRUE, value |-> 15]
      [] OTHER -> [ok |-> FALSE, value |-> 0]

\* _detect_with_llm lines 220-240.  A reply is [task_value, parts, confidence]:
\* the text before the first "|", the number of "|"-separated parts, and the
\* text of the second part.  The result is [ok, match]; ok = FALSE is the
\* re-raised ValueError.
ParseLLMReply(reply) ==
    LET conf == IF reply.parts > 1 THEN FloatOf(reply.confidence)
                ELSE [ok |-> TRUE, value |-> 7]
    IN IF ~conf.ok \/ reply.task_value \notin TaskTypes
       THEN [ok |-> FALSE,
             match |-> [task_type |-> "question_answer", confidence |-> 0,
                        method |-> "llm"]]
       ELSE [ok |-> TRUE,
             match |-> [task_type |-> reply.task_value, confidence |-> conf.value,
                        method |-> "llm"]]

LLMOutcomeAtLeast(rule, reply) ==
    LET r == ParseLLMReply(reply)
    IN IF r.ok /\ r.match.confidence >= rule.confidence THEN r.match ELSE rule

\* detect lines 136-138 and 145: the classifier's answer is returned only when it
\* parsed and is more confident than the rule result
LLMOutcome(rule, reply) ==
    LET r == ParseLLMReply(reply)
    IN IF r.ok /\ r.match.confidence > rule.confidence THEN r.match ELSE rule

EscalatesBelowAccept(conf, fallback, configured) ==
    fallback /\ configured /\ conf < RULE_CONFIDENCE_THRESHOLD

\* detect lines 134: is the classifier tried after the rule phase gave conf?
Escalates(conf, fallback, configured) ==
    fallback /\ configured /\ conf < LLM_FALLBACK_THRESHOLD

(***************************************************************************)
(* Inputs of detect                                                        *)
(***************************************************************************)
MaxQueryTokens == 3

Vocabulary == {"what", "risk", "analysis", "client", "summary", "?"}

\* "What are the key risks for this project?"
KeyRisksQuery == <<"what", "are", "the", "key", "risks", "for", "this", "project", "?">>

\* queries of the unit tests (tests/unit/test_intent.py)
TestQueries ==
    { KeyRisksQuery,
      <<"identify", "the", "risks", "in", "this", "engagement">>,
      <<"risk", "analysis", "for", "the", "merger">>,
      <<"what", "potential", "issues", "should", "we", "consider", "?">>,
      <<"give", "me", "a", "client", "summary">>,
      <<"what", "are", "the", "action", "items", "?">>,
      <<"extract", "to", "-", "do", "items", "from", "the", "notes">>,
      <<"high", "-", "level", "overview", "for", "leadership">>,
      <<"what", "is", "the", "meaning", "of", "this", "document", "?">> }

\* a query that names two tasks: both patterns "summar.*client" and
\* "client.*summar" (1.0 each) and "risk analysis" (1.0) match
TwoTaskQuery == <<"client", "summary", "of", "client", "risk", "analysis">>

Queries ==
    TestQueries \cup {TwoTaskQuery}
        \cup UNION {[1..n -> Vocabulary] : n \in 1..MaxQueryTokens}

LLMReplies ==
    [task_value : {"risk_analysis", "question_answer", "unknown_task"},
     parts : {1, 2},
     confidence : {"", "high", "0.2", "0.3", "0.9", "1.5"}]

NoMatch == [task_type |-> "question_answer", confidence |-> 0, method |-> "none"]

(***************************************************************************)
(* detect as a state machine                                               *)
(***************************************************************************)
IntentIdle ==
    /\ in_pc = "idle"
    /\ query = <<>>
    /\ intent_enabled = TRUE
    /\ llm_configured = FALSE
    /\ use_llm_fallback = TRUE
    /\ rule_result = NoMatch
    /\ intent_match = NoMatch
    /\ llm_calls = 0
    /\ llm_reply = [task_value |-> "<none>", parts |-> 0, confidence |-> ""]

IntentInit ==
    /\ in_pc = "detect"
    /\ query \in Queries
    /\ intent_enabled \in BOOLEAN
    /\ llm_configured \in BOOLEAN
    /\ use_llm_fallback \in BOOLEAN
    /\ rule_result = NoMatch
    /\ intent_match = NoMatch
    /\ llm_calls = 0
    /\ llm_reply = [task_value |-> "<none>", parts |-> 0, confidence |-> ""]

\* detect lines 111-117
DetectDisabled ==
    /\ in_pc = "detect"
    /\ ~intent_enabled
    /\ intent_match' = [task_type |-> "question_answer", confidence |-> 10,
                        method |-> "disabled"]
    /\ in_pc' = "done"
    /\ UNCHANGED <<query, intent_enabled, llm_configured, use_llm_fallback, rule_result,
                   llm_calls, llm_reply>>
    /\ UNCHANGED in_rest

\* detect lines 120-131 and 145: the rule phase, returned unless the classifier is tried
DetectRules ==
    /\ in_pc = "detect"
    /\ intent_enabled
    /\ rule_result' = _detect_with_rules(query)
    /\ IF /\ rule_result'.confidence < RULE_CONFIDENCE_THRESHOLD
          /\ Escalates(rule_result'.confidence, use_llm_fallback, llm_configured)
       THEN in_pc' = "llm" /\ UNCHANGED intent_match
       ELSE in_pc' = "done" /\ intent_match' = rule_result'
    /\ UNCHANGED <<query, intent_enabled, llm_configured, use_llm_fallback, llm_calls,
                   llm_reply>>
    /\ UNCHANGED in_rest

\* detect lines 135-138 and 145: the classifier answered
DetectLLMReplies ==
    /\ in_pc = "llm"
    /\ \E reply \in LLMReplies :
          /\ llm_reply' = reply
          /\ intent_match' = LLMOutcome(rule_result, reply)
    /\ llm_calls' = llm_calls + 1
    /\ in_pc' = "done"
    /\ UNCHANGED <<query, intent_enabled, llm_configured, use_llm_fallback, rule_result>>
    /\ UNCHANGED in_rest

\* detect lines 139-145: llm_service.generate raised
DetectLLMRaises ==
    /\ in_pc = "llm"
    /\ intent_match' = rule_result
    /\ llm_reply' = [task_value |-> "<raised>", parts |-> 0, confidence |-> ""]
    /\ llm_calls' = llm_calls + 1
    /\ in_pc' = "done"
    /\ UNCHANGED <<query, intent_enabled, llm_configured, use_llm_fallback, rule_result>>
    /\ UNCHANGED in_rest

IntentNext ==
    \/ DetectDisabled
    \/ DetectRules
    \/ DetectLLMReplies
    \/ DetectLLMRaises

(***************************************************************************)
(* WorkflowOrchestrator._parse_response (workflows/orchestrator.py)        *)
(*                                                                         *)
(* The model's text is a sequence of tokens: the JSON punctuation, string  *)
(* literals (quoted below), a number, null, a prose word "w", the code     *)
(* fence, a fence language tag, and the white space " " and "\n".          *)
(***************************************************************************)
KSummary == "\"summary\""
KAnswer == "\"answer\""
KHeadline == "\"headline\""
KNote == "\"note\""
SText == "\"long enough text\""
NumTok == "1"
NullTok == "null"
\* the code fence (three backquotes), one token
Fence == "~~~"
StringTokens == {KSummary, KAnswer, KHeadline, KNote, SText}

\* the key an object-key token denotes
KeyName(tok) ==
    CASE tok = KSummary -> "summary"
      [] tok = KAnswer -> "answer"
      [] tok = KHeadline -> "headline"
      [] tok = KNote -> "note"
      [] OTHER -> "long enough text"

\* nesting depth of containers at which json.loads gives up with RecursionError
\* (the interpreter's recursion limit, scaled to the texts enumerated below)
JsonRecursionLimit == 2

SkipWs(t, i) == RunEnd(t, i) + 1

SyntaxError(i) == [status |-> "syntax", next |-> i, kind |-> "none", members |-> {}]
RecursionError(i) == [status |-> "recursion", next |-> i, kind |-> "none", members |-> {}]

\* json.loads' scanner: the value starting at token i (not white space), with depth
\* containers open.  Gives [status, next, kind, members]: status "ok", "syntax"
\* (JSONDecodeError) or "recursion" (RecursionError); next the token after the
\* value; members the <<key, kind of value>> pairs of an object, last one winning.
RECURSIVE ParseValue(_, _, _)
RECURSIVE ParseMembers(_, _, _, _)
RECURSIVE ParseElements(_, _, _)
ParseValue(t, i, depth) ==
    IF i > Len(t) THEN SyntaxError(i)
    ELSE IF t[i] \in StringTokens
    THEN [status |-> "ok", next |-> i + 1, kind |-> "str", members |-> {}]
    ELSE IF t[i] = NumTok
    THEN [status |-> "ok", next |-> i + 1, kind |-> "number", members |-> {}]
    ELSE IF t[i] = NullTok
    THEN [status |-> "ok", next |-> i + 1, kind |-> "null", members |-> {}]
    ELSE IF t[i] \in {"{", "["}
    THEN IF depth + 1 > JsonRecursionLimit THEN RecursionError(i)
         ELSE LET j == SkipWs(t, i + 1)
              IN IF t[i] = "{"
                 THEN IF j <= Len(t) /\ t[j] = "}"
                      THEN [status |-> "ok", next |-> j + 1, kind |-> "dict", members |-> {}]
                      ELSE ParseMembers(t, j, depth + 1, {})
                 ELSE IF j <= Len(t) /\ t[j] = "]"
                      THEN [status |-> "ok", next |-> j + 1, kind |-> "list", members |-> {}]
                      ELSE ParseElements(t, j, depth + 1)
    ELSE SyntaxError(i)

\* the members of an object from token i (a key is expected) to its "}"
ParseMembers(t, i, depth, acc) ==
    IF i > Len(t) \/ t[i] \notin StringTokens THEN SyntaxError(i)
    ELSE LET c == SkipWs(t, i + 1)
         IN IF c > Len(t) \/ t[c] # ":" THEN SyntaxError(c)
            ELSE LET v == ParseValue(t, SkipWs(t, c + 1), depth)
                     e == SkipWs(t, v.next)
                     acc2 == {m \in acc : m[1] # KeyName(t[i])}
                                 \cup {<<KeyName(t[i]), v.kind>>}
                 IN IF v.status # "ok" THEN v
                    ELSE IF e > Len(t) THEN SyntaxError(e)
                    ELSE IF t[e] = "}"
                    THEN [status |-> "ok", next |-> e + 1, kind |-> "dict",
                          members |-> acc2]
                    ELSE IF t[e] = ","
                    THEN ParseMembers(t, SkipWs(t, e + 1), depth, acc2)
                    ELSE SyntaxError(e)

\* the elements of an array from token i (a value is expected) to its "]"
ParseElements(t, i, depth) ==
    LET v == ParseValue(t, i, depth)
        e == SkipWs(t, v.next)
    IN IF v.status # "ok" THEN v
       ELSE IF e > Len(t) THEN SyntaxError(e)
       ELSE IF t[e] = "]"
       THEN [status |-> "ok", next |-> e + 1, kind |-> "list", members |-> {}]
       ELSE IF t[e] = ","
       THEN ParseElements(t, SkipWs(t, e + 1), depth)
       ELSE SyntaxError(e)

\* json.loads(text): one value, white space around it, nothing else
json_loads(t) ==
    LET v == ParseValue(t, SkipWs(t, 1), 0)
    IN IF v.status = "ok" /\ SkipWs(t, v.next) <= Len(t) THEN SyntaxError(v.next) ELSE v

\* _parse_response lines 220-229: strip, and take off a markdown code fence
StripFence(raw) ==
    LET cleaned == Strip(raw)
        newlines == {i \in 1..Len(cleaned) : cleaned[i] = "\n"}
        fences == {i \in 1..Len(cleaned) : cleaned[i] = Fence}
        \* str.find / str.rfind as 0-based offsets, -1 when absent
        first_newline == IF newlines = {} THEN -1 ELSE SetMin(newlines) - 1
        last_fence == SetMax(fences) - 1
    IN IF cleaned # <<>> /\ cleaned[1] = Fence
       THEN IF last_fence > first_newline
            THEN Strip(SubSeq(cleaned, first_newline + 2, last_fence))
            ELSE cleaned
       ELSE cleaned

\* re.search(r"\{[\s\S]*\}", cleaned): from the first "{" to the last "}"
BraceSpan(cleaned) ==
    LET opens == {i \in 1..Len(cleaned) : cleaned[i] = "{"}
        closes == {i \in 1..Len(cleaned) : cleaned[i] = "}"}
    IN IF opens # {} /\ closes # {} /\ SetMax(closes) > SetMin(opens)
       THEN [found |-> TRUE, text |-> SubSeq(cleaned, SetMin(opens), SetMax(closes))]
       ELSE [found |-> FALSE, text |-> <<>>]

\* the fields the task's output model requires (models/outputs.py); every one a str
RequiredFields(tt) ==
    {"summary"} \cup (IF tt = "question_answer" THEN {"answer"} ELSE {})
                \cup (IF tt = "executive_summary" THEN {"headline"} ELSE {})

\* the fields of model_dump(): the required ones and BaseAdvisoryOutput's
\* confidence_note (the defaulted task-specific fields are left out)
ModelFields(tt) == RequiredFields(tt) \cup {"confidence_note"}

\* output_model.model_validate(parsed) does not raise ValidationError
SchemaValid(parsed, tt) ==
    /\ parsed.kind = "dict"
    /\ \A f \in RequiredFields(tt) : <<f, "str">> \in parsed.members

NoText == <<"<absent>">>
NoResponse == [kind |-> "none", keys |-> {}, raw_response |-> NoText, step |-> "none"]

\* the parsed JSON value as the response object
AsResponse(parsed, step) ==
    [kind |-> parsed.kind, keys |-> {m[1] : m \in parsed.members},
     raw_response |-> NoText, step |-> step]

\* WorkflowOrchestrator._parse_response: [raised, response].  A response is
\* [kind, keys, raw_response, step]: the Python type of the value, its top-level
\* keys, the text under "raw_response" (NoText without that key), and the return
\* statement that produced it.
_parse_response(raw, tt, enabled) ==
    IF ~enabled
    THEN [raised |-> FALSE,
          response |-> [kind |-> "dict", keys |-> {"raw_response"},
                        raw_response |-> raw, step |-> "disabled"]]
    ELSE LET cleaned == StripFence(raw)
             parsed == json_loads(cleaned)
             span == BraceSpan(cleaned)
             inner == json_loads(span.text)
         IN CASE parsed.status = "recursion" ->
                   [raised |-> TRUE, response |-> NoResponse]
              [] parsed.status = "ok" /\ SchemaValid(parsed, tt) ->
                   [raised |-> FALSE,
                    response |-> [kind |-> "dict", keys |-> ModelFields(tt),
                                  raw_response |-> NoText, step |-> "validated"]]
              [] parsed.status = "ok" /\ ~SchemaValid(parsed, tt) ->
                   [raised |-> FALSE, response |-> AsResponse(parsed, "unvalidated")]
              [] parsed.status = "syntax" /\ span.found /\ inner.status = "ok" ->
                   [raised |-> FALSE, response |-> AsResponse(inner, "extracted")]
              [] OTHER ->
                   [raised |-> FALSE,
                    response |-> [kind |-> "dict",
                                  keys |-> {"summary", "raw_response", "parse_error"},
                                  raw_response |-> cleaned, step |-> "narrative"]]

(***************************************************************************)
(* WorkflowOrchestrator.process_query                                      *)
(***************************************************************************)
NoTask == "none"

\* IntentDetector.detect as process_query calls it (llm_service set, fallback on):
\* every IntentMatch it may return
DetectReturns(q, enabled) ==
    IF ~enabled
    THEN {[task_type |-> "question_answer", confidence |-> 10, method |-> "disabled"]}
    ELSE LET rule == _detect_with_rules(q)
         IN IF /\ rule.confidence < RULE_CONFIDENCE_THRESHOLD
               /\ Escalates(rule.confidence, TRUE, TRUE)
            THEN {LLMOutcome(rule, reply) : reply \in LLMReplies} \cup {rule}
            ELSE {rule}

\* what one call of detect invokes: the rule phase unless detection is disabled
\* (lines 111-120), the classifier when the rule result escalates (lines 134-136)
DetectorCalls(q, enabled) ==
    LET rule == _detect_with_rules(q)
    IN [detect |-> 1,
        rules |-> IF enabled THEN 1 ELSE 0,
        llm |-> IF /\ enabled
                   /\ rule.confidence < RULE_CONFIDENCE_THRESHOLD
                   /\ Escalates(rule.confidence, TRUE, TRUE)
                THEN 1 ELSE 0]

\* QueryResponse accepts the value as its response field (dict | str)
ResponseAccepted(resp) == resp.kind \in {"dict", "str"}

\* QueryResponse accepts the confidence (ge 0, le 1)
ConfidenceAccepted(c) == c >= 0 /\ c <= 10

\* an exception that leaves process_query: no outcome is returned
\* the list retrieve_for_context returned, in rank order: n documents, each
\* named by its rank
Retrieved(n) == [i \in 1..n |-> i]

BuildSourcesAll(docs, req) == IF req.include_sources THEN docs ELSE <<>>
\* process_query lines 139-150: the cited sources
BuildSources(docs, req) ==
    IF req.include_sources THEN Take(docs, req.max_sources) ELSE <<>>

Propagated(stage) == [success |-> FALSE, error |-> "pending", response |-> NoResponse,
                      task_type |-> NoTask, confidence |-> 0, sources |-> <<>>,
                      documents_used |-> 0, documents_retrieved |-> 0]
\* process_query lines 184-209: the except branch returns the Failed outcome
Failed(stage) == [success |-> FALSE, error |-> stage, response |-> NoResponse,
                  task_type |-> IF task_type = NoTask THEN "question_answer"
                                ELSE task_type,
                  confidence |-> 0, sources |-> <<>>, documents_used |-> 0,
                  documents_retrieved |-> 0]
NoOutcome == [success |-> FALSE, error |-> "pending", response |-> NoResponse,
              task_type |-> NoTask, confidence |-> 0, sources |-> <<>>,
              documents_used |-> 0, documents_retrieved |-> 0]

(***************************************************************************)
(* Inputs of process_query                                                 *)
(***************************************************************************)
MaxDocs == 2
MaxSourcesAsked == 2

Tok(k, v) == <<k, ":", v>>
ObjSummary == <<"{">> \o Tok(KSummary, SText) \o <<"}">>
ObjAnswer == <<"{">> \o Tok(KSummary, SText) \o <<",", " ">> \o Tok(KAnswer, SText) \o <<"}">>
ObjNote == <<"{">> \o Tok(KNote, NumTok) \o <<"}">>

\* texts the generative model may return
RawResponses ==
    { ObjAnswer,                                        \* valid for question_answer
      ObjSummary,                                       \* valid unless more is required
      ObjNote,                                          \* JSON object of the wrong shape
      <<"[", NumTok, "]">>,                             \* JSON list
      <<SText>>,                                        \* JSON string
      <<NullTok>>,
      <<"w", " ", "w">>,                                \* prose
      <<"w", " ">> \o ObjSummary \o <<" ", "w">>,       \* JSON inside prose
      <<"[">> \o ObjNote \o <<",", "{">> \o <<KNote, ":">>,   \* truncated list
      <<"{">> \o Tok(KSummary, SText) \o <<",">>,       \* truncated object
      <<"[", "[", "[">>,                                \* truncated, deeply nested
      <<Fence, "json", "\n">> \o ObjAnswer \o <<"\n", Fence>>,
      <<Fence, "json", " ">> \o ObjSummary,             \* fence never closed, one line
      <<" ">> }

PipelineQueries == {KeyRisksQuery, <<"risk", "analysis">>}

Requests ==
    [query : PipelineQueries,
     task_type : {NoTask, "question_answer", "executive_summary"},
     max_sources : 1..MaxSourcesAsked,
     include_sources : BOOLEAN]

(***************************************************************************)
(* process_query as a state machine                                        *)
(***************************************************************************)
PipelineIdle ==
    /\ pq_pc = "idle"
    /\ request = [query |-> <<>>, task_type |-> NoTask, max_sources |-> 1,
                  include_sources |-> FALSE]
    /\ structured_enabled = TRUE
    /\ detection_enabled = TRUE
    /\ task_type = NoTask
    /\ intent_confidence = 10
    /\ documents = 0
    /\ context = "none"
    /\ detector_calls = [detect |-> 0, rules |-> 0, llm |-> 0]
    /\ raw_response = NoText
    /\ parsed_response = NoResponse
    /\ parse_raised = FALSE
    /\ outcome = NoOutcome
    /\ stages = <<>>

PipelineInit ==
    /\ pq_pc = "classify"
    /\ request \in Requests
    /\ structured_enabled \in BOOLEAN
    /\ detection_enabled \in BOOLEAN
    /\ task_type = NoTask
    /\ intent_confidence = 10
    /\ documents = 0
    /\ context = "none"
    /\ detector_calls = [detect |-> 0, rules |-> 0, llm |-> 0]
    /\ raw_response = NoText
    /\ parsed_response = NoResponse
    /\ parse_raised = FALSE
    /\ outcome = NoOutcome
    /\ stages = <<>>

ClassifyExplicitIgnored ==
    /\ pq_pc = "classify"
    /\ request.task_type # NoTask
    /\ \E m \in DetectReturns(request.query, detection_enabled) :
          /\ task_type' = m.task_type
          /\ intent_confidence' = m.confidence
    /\ detector_calls' = DetectorCalls(request.query, detection_enabled)
    /\ stages' = Append(stages, "ClassifyIntent")
    /\ pq_pc' = "retrieve"
    /\ UNCHANGED <<request, context, structured_enabled, detection_enabled, documents,
                   raw_response, parsed_response, parse_raised, outcome>>
    /\ UNCHANGED pq_rest

\* process_query lines 62-64: the request names its task type
ClassifyExplicit ==
    /\ pq_pc = "classify"
    /\ request.task_type # NoTask
    /\ task_type' = request.task_type
    /\ intent_confidence' = 10
    /\ stages' = Append(stages, "ClassifyIntent")
    /\ pq_pc' = "retrieve"
    /\ UNCHANGED <<request, context, detector_calls,
                   structured_enabled, detection_enabled, documents,
                   raw_response, parsed_response, parse_raised, outcome>>
    /\ UNCHANGED pq_rest

\* process_query lines 66-69: the detector classifies the query
ClassifyDetect ==
    /\ pq_pc = "classify"
    /\ request.task_type = NoTask
    /\ \E m \in DetectReturns(request.query, detection_enabled) :
          /\ task_type' = m.task_type
          /\ intent_confidence' = m.confidence
    /\ detector_calls' = DetectorCalls(request.query, detection_enabled)
    /\ stages' = Append(stages, "ClassifyIntent")
    /\ pq_pc' = "retrieve"
    /\ UNCHANGED <<request, context, structured_enabled, detection_enabled, documents,
                   raw_response, parsed_response, parse_raised, outcome>>
    /\ UNCHANGED pq_rest

RetrieveDeferred ==
    /\ pq_pc = "retrieve"
    /\ pq_pc' = "build_prompt"
    /\ UNCHANGED <<request, context, detector_calls,
                   structured_enabled, detection_enabled, task_type,
                   intent_confidence, documents, raw_response, parsed_response,
                   parse_raised, outcome, stages>>
    /\ UNCHANGED pq_rest

\* process_query lines 79-96: retrieve_for_context; without documents the context
\* becomes the no-relevant-documents marker
Retrieve ==
    /\ pq_pc = "retrieve"
    /\ documents' \in 0..MaxDocs
    /\ context' = IF documents' = 0 THEN "no_documents" ELSE "sources"
    /\ stages' = Append(stages, "Retrieve")
    /\ pq_pc' = "build_prompt"
    /\ UNCHANGED <<request, detector_calls, structured_enabled, detection_enabled,
                   task_type, intent_confidence, raw_response, parsed_response,
                   parse_raised, outcome>>
    /\ UNCHANGED pq_rest

\* process_query lines 105-111
BuildPrompt ==
    /\ pq_pc = "build_prompt"
    /\ stages' = Append(stages, "BuildPrompt")
    /\ pq_pc' = "generate"
    /\ UNCHANGED <<request, context, detector_calls,
                   structured_enabled, detection_enabled, task_type,
                   intent_confidence, documents, raw_response, parsed_response,
                   parse_raised, outcome>>
    /\ UNCHANGED pq_rest

\* process_query lines 116-121: llm_service.generate returned text
GenerateReturns ==
    /\ pq_pc = "generate"
    /\ raw_response' \in RawResponses
    /\ stages' = Append(stages, "Generate")
    /\ pq_pc' = "parse"
    /\ UNCHANGED <<request, context, detector_calls,
                   structured_enabled, detection_enabled, task_type,
                   intent_confidence, documents, parsed_response, parse_raised, outcome>>
    /\ UNCHANGED pq_rest

\* process_query lines 116-121 and 184-209: llm_service.generate raised
GenerateRaises ==
    /\ pq_pc = "generate"
    /\ stages' = Append(stages, "Generate")
    /\ outcome' = Failed("generate")
    /\ pq_pc' = "done"
    /\ UNCHANGED <<request, context, detector_calls,
                   structured_enabled, detection_enabled, task_type,
                   intent_confidence, documents, raw_response, parsed_response,
                   parse_raised>>
    /\ UNCHANGED pq_rest

\* process_query lines 132-135 (and 184-209 when _parse_response raises)
ParseAndValidate ==
    /\ pq_pc = "parse"
    /\ LET r == _parse_response(raw_response, task_type, structured_enabled)
       IN /\ parse_raised' = r.raised
          /\ parsed_response' = r.response
          /\ IF r.raised
             THEN outcome' = Failed("parse") /\ pq_pc' = "done"
             ELSE UNCHANGED outcome /\ pq_pc' = "assemble"
    /\ stages' = Append(stages, "ParseAndValidate")
    /\ UNCHANGED <<request, context, detector_calls,
                   structured_enabled, detection_enabled, task_type,
                   intent_confidence, documents, raw_response>>
    /\ UNCHANGED pq_rest

\* process_query lines 137-182 (and 184-209 when QueryResponse rejects a field)
Assemble ==
    /\ pq_pc = "assemble"
    /\ LET sources == BuildSources(Retrieved(documents), request)
       IN outcome' = IF /\ ResponseAccepted(parsed_response)
                        /\ ConfidenceAccepted(intent_confidence)
                     THEN [success |-> TRUE, error |-> "none",
                           response |-> parsed_response, task_type |-> task_type,
                           confidence |-> intent_confidence, sources |-> sources,
                           documents_used |-> Len(sources),
                           documents_retrieved |-> Len(Retrieved(documents))]
                     ELSE Failed("assemble")
    /\ stages' = Append(stages, "Assemble")
    /\ pq_pc' = "done"
    /\ UNCHANGED <<request, context, detector_calls,
                   structured_enabled, detection_enabled, task_type,
                   intent_confidence, documents, raw_response, parsed_response,
                   parse_raised>>
    /\ UNCHANGED pq_rest

PipelineNext ==
    \/ ClassifyExplicit
    \/ ClassifyDetect
    \/ Retrieve
    \/ BuildPrompt
    \/ GenerateReturns
    \/ GenerateRaises
    \/ ParseAndValidate
    \/ Assemble

(***************************************************************************)
(* BM25Index (retrieval/bm25.py) and the embedding cache                   *)
(* (ingestion/embedder.py).  A document is its chunk id, whether it has    *)
(* content, the set of its tokens and its document_type metadata; a query  *)
(* is the set of its tokens.  BM25Okapi is an external library: its scores *)
(* are any values that are 0 for a document sharing no token with the      *)
(* query.  The methods are synchronous, so each call is one step.          *)
(***************************************************************************)
MaxIndexDocs == 2

\* the dicts passed to add_documents; E has no content
IndexDocs ==
    { [chunk_id |-> "A", content |-> "text", tokens |-> {"risk"},
       document_type |-> "playbook"],
      [chunk_id |-> "B", content |-> "text", tokens |-> {"risk", "fee"},
       document_type |-> "partner_memo"],
      [chunk_id |-> "E", content |-> "", tokens |-> {},
       document_type |-> "playbook"] }

\* _tokenize(query): no token, or one
IndexQueries == {{}, {"risk"}, {"fee"}}

\* filter_dict: absent (None or {}), or a list of allowed document types
IndexFilters ==
    { [given |-> FALSE, document_type |-> {}],
      [given |-> TRUE, document_type |-> {"playbook", "engagement"}] }

\* self.bm25 = None
NoIndex == [built |-> FALSE, corpus |-> <<>>]

\* add_documents lines 35-55: documents without content are skipped
RECURSIVE add_documents(_, _)
add_documents(docs, batch) ==
    IF batch = <<>> THEN docs
    ELSE add_documents(IF Head(batch).content = "" THEN docs
                       ELSE Append(docs, Head(batch)),
                       Tail(batch))

\* _rebuild_index: [bm25, _needs_rebuild]; with no documents the flag is left set
_rebuild_index(docs) ==
    IF docs = <<>>
    THEN [bm25 |-> NoIndex, _needs_rebuild |-> TRUE]
    ELSE [bm25 |-> [built |-> TRUE, corpus |-> [i \in 1..Len(docs) |-> docs[i].tokens]],
          _needs_rebuild |-> FALSE]

\* self.bm25.get_scores(query_tokens): one score per document of the corpus
get_scores(corpus, q) ==
    {sc \in [1..Len(corpus) -> BM25ScoreValues] :
        \A i \in 1..Len(corpus) : corpus[i] \cap q = {} => sc[i] = 0}

\* search lines 113-136: the result loop over top_indices; raises IndexError
\* when an index with a positive score is past self.documents
RECURSIVE IndexResults(_, _, _, _)
IndexResults(top_indices, scores, docs, pos) ==
    IF pos > Len(top_indices) THEN [raised |-> FALSE, results |-> <<>>]
    ELSE LET idx == top_indices[pos]
             rest == IndexResults(top_indices, scores, docs, pos + 1)
         IN IF scores[idx] <= 0 THEN rest
            ELSE IF idx > Len(docs) THEN [raised |-> TRUE, results |-> <<>>]
            ELSE [raised |-> rest.raised,
                  results |-> IF rest.raised THEN <<>>
                              ELSE <<[chunk_id |-> docs[idx].chunk_id,
                                      document_type |-> docs[idx].document_type,
                                      rank |-> pos - 1]>> \o rest.results]

\* search lines 90-144 on the index as built; _apply_filters (146-166) walks
\* self.documents and zeroes the score at each failing document's position
index_search(docs, index, scores, q, k, filter) ==
    IF ~index.built \/ docs = <<>> \/ q = {}
    THEN [raised |-> FALSE, results |-> <<>>]
    ELSE LET n == Len(index.corpus)
             fails(i) == filter.given /\ docs[i].document_type \notin filter.document_type
             filtered == [i \in 1..n |->
                            IF i <= Len(docs) /\ fails(i) THEN 0 ELSE scores[i]]
         IN IF \E i \in 1..Len(docs) : i > n /\ fails(i)
            THEN [raised |-> TRUE, results |-> <<>>]
            ELSE IndexResults(Take(SortedDesc(filtered, 1..n), k), filtered, docs, 1)

remove_document_unflagged(docs, chunk_id, flag) ==
    [documents |-> SelectSeq(docs, LAMBDA d : d.chunk_id # chunk_id),
     _needs_rebuild |-> flag]
\* remove_document: [documents, _needs_rebuild]
remove_document(docs, chunk_id, flag) ==
    LET kept == SelectSeq(docs, LAMBDA d : d.chunk_id # chunk_id)
    IN [documents |-> kept,
        _needs_rebuild |-> IF Len(kept) < Len(docs) THEN TRUE ELSE flag]

NoSearch == [raised |-> FALSE, results |-> <<>>, filter |-> [given |-> FALSE,
                                                             document_type |-> {}]]

\* BM25Index.__init__ and EmbeddingService.__init__
IndexInit ==
    /\ ix_op = "none"
    /\ index_documents = <<>>
    /\ bm25 = NoIndex
    /\ _needs_rebuild = TRUE
    /\ _cache = {}
    /\ ix_result = NoSearch
    /\ ix_removed = {}

\* BM25Index.add_documents (ingestion)
AddDocuments ==
    /\ \E batch \in UNION {[1..n -> IndexDocs] : n \in 1..2} :
          /\ Len(add_documents(index_documents, batch)) <= MaxIndexDocs
          /\ index_documents' = add_documents(index_documents, batch)
          /\ ix_removed' = ix_removed \ {d.chunk_id : d \in {batch[i] : i \in 1..Len(batch)}}
    /\ _needs_rebuild' = TRUE
    /\ ix_op' = "add_documents"
    /\ ix_result' = NoSearch
    /\ UNCHANGED <<bm25, _cache>>
    /\ UNCHANGED ix_rest

\* BM25Index.remove_document (ingestion)
RemoveDocument ==
    /\ \E chunk_id \in {d.chunk_id : d \in IndexDocs} :
          LET r == remove_document(index_documents, chunk_id, _needs_rebuild)
          IN /\ index_documents' = r.documents
             /\ _needs_rebuild' = r._needs_rebuild
             /\ ix_removed' = ix_removed \cup {chunk_id}
    /\ ix_op' = "remove_document"
    /\ ix_result' = NoSearch
    /\ UNCHANGED <<bm25, _cache>>
    /\ UNCHANGED ix_rest

\* BM25Index.clear (ingestion)
Clear ==
    /\ index_documents' = <<>>
    /\ bm25' = NoIndex
    /\ _needs_rebuild' = TRUE
    /\ ix_removed' = ix_removed \cup {index_documents[i].chunk_id :
                                       i \in 1..Len(index_documents)}
    /\ ix_op' = "clear"
    /\ ix_result' = NoSearch
    /\ UNCHANGED _cache
    /\ UNCHANGED ix_rest

\* BM25Index.search, called by retrieve (hybrid.py 114) for every query
IndexSearch ==
    /\ LET built == IF _needs_rebuild THEN _rebuild_index(index_documents)
                    ELSE [bm25 |-> bm25, _needs_rebuild |-> _needs_rebuild]
       IN /\ bm25' = built.bm25
          /\ _needs_rebuild' = built._needs_rebuild
          /\ \E q \in IndexQueries, k \in {1, 2}, filter \in IndexFilters :
                \E sc \in get_scores(built.bm25.corpus, q) :
                    LET r == index_search(index_documents, built.bm25, sc, q, k, filter)
                    IN ix_result' = [raised |-> r.raised, results |-> r.results,
                                     filter |-> filter]
    /\ ix_op' = "search"
    /\ UNCHANGED <<index_documents, _cache, ix_removed>>
    /\ UNCHANGED ix_rest

\* EmbeddingService.embed_text(text) with use_cache = True, called by retrieve
\* (hybrid.py 94) for every query: a miss stores the provider's embedding
\* unless the provider raised
EmbedText ==
    /\ \E q \in IndexQueries \ {{}}, provider_raises \in BOOLEAN :
          _cache' = IF q \in _cache \/ provider_raises THEN _cache ELSE _cache \cup {q}
    /\ ix_op' = "embed_text"
    /\ ix_result' = NoSearch
    /\ UNCHANGED <<index_documents, bm25, _needs_rebuild, ix_removed>>
    /\ UNCHANGED ix_rest

IndexNext ==
    \/ AddDocuments
    \/ RemoveDocument
    \/ Clear
    \/ IndexSearch
    \/ EmbedText

(***************************************************************************)
(* OpenAIProvider.generate (src/app/services/llm.py 70-128)                *)
(*                                                                         *)
(* generate is wrapped by tenacity's @retry(retry_if_exception_type(       *)
(* Exception), stop_after_attempt(3), wait_exponential(...)) with no       *)
(* reraise argument: tenacity calls the function again after every raised  *)
(* exception until the stop condition holds, and then raises RetryError    *)
(* holding the last attempt (reraise defaults to False).  The waits        *)
(* between attempts are not modelled.                                      *)
(***************************************************************************)
stop_after_attempt == 3

\* what client.chat.completions.create can raise, as str(e)
ProviderErrors ==
    { <<"R","a","t","e"," ","l","i","m","i","t">>,
      <<"E","r","r","o","r"," ","4","2","9">>,
      <<"T","i","m","e","o","u","t">>,
      <<"R","a","t","e","-","l","i","m","i","t">>,
      <<>> }

\* response.choices[0].message.content: None or a text
ProviderContents == {"<None>", "", "answer"}

lower(c) ==
    CASE c = "R" -> "r" [] c = "E" -> "e" [] c = "T" -> "t" [] OTHER -> c

\* generate lines 113-128: the exception the except branch raises
raised_for(e) ==
    LET error_str == [i \in 1..Len(e) |-> lower(e[i])]
    IN IF \/ Contains(error_str, <<"r","a","t","e"," ","l","i","m","i","t">>)
          \/ Contains(error_str, <<"4","2","9">>)
       THEN "LLMRateLimitError"
       ELSE "LLMConnectionError"

\* tenacity, reraise=False: the caller gets RetryError, the last attempt's
\* exception is its last_attempt
retry_error(last) == [type |-> "RetryError", last_attempt |-> last]

NoGenOutcome == [type |-> "<none>", last_attempt |-> "<none>"]

ProviderInit ==
    /\ gen_pc = "idle"
    /\ messages = <<>>
    /\ attempt_number = 0
    /\ attempt_errors = <<>>
    /\ gen_outcome = NoGenOutcome

\* a caller awaits generate(prompt, system_prompt, ...)
GenerateCall ==
    /\ gen_pc \in {"idle", "returned", "raised"}
    /\ \E system_prompt \in {"<None>", "", "system"} :
          messages' = IF system_prompt \in {"<None>", ""}
                      THEN <<"user">>
                      ELSE <<"system", "user">>
    /\ gen_pc' = "attempt"
    /\ attempt_number' = 0
    /\ attempt_errors' = <<>>
    /\ gen_outcome' = NoGenOutcome
    /\ UNCHANGED gp_rest

\* one attempt whose completion call returns
AttemptReturns ==
    /\ gen_pc = "attempt"
    /\ \E content \in ProviderContents :
          gen_outcome' = [type |-> "text",
                          last_attempt |-> IF content = "<None>"
                                           THEN "" ELSE content]
    /\ attempt_number' = attempt_number + 1
    /\ gen_pc' = "returned"
    /\ UNCHANGED <<messages, attempt_errors>>
    /\ UNCHANGED gp_rest

\* one attempt whose completion call raises
AttemptRaises ==
    /\ gen_pc = "attempt"
    /\ \E e \in ProviderErrors :
          LET raised == raised_for(e)
          IN /\ attempt_errors' =
                   Append(attempt_errors, [error |-> e, raised |-> raised])
             /\ attempt_number' = attempt_number + 1
             /\ IF attempt_number + 1 >= stop_after_attempt
                THEN /\ gen_pc' = "raised"
                     /\ gen_outcome' = retry_error(raised)
                ELSE /\ gen_pc' = "attempt"
                     /\ gen_outcome' = gen_outcome
    /\ UNCHANGED messages
    /\ UNCHANGED gp_rest

ProviderNext == GenerateCall \/ AttemptReturns \/ AttemptRaises

(***************************************************************************)
(* HybridRetriever.retrieve_for_context (hybrid.py 213-242)                *)
(*                                                                         *)
(* The context string is the sequence of the pieces the f-strings and the  *)
(* join put together.  The call to                                         *)
(* retrieve is made in the same step: the two source lists are any lists   *)
(* of distinct chunks of ContextPool no longer than fetch_k, fused and cut *)
(* as in retrieve.                                                         *)
(***************************************************************************)
tokens_per_document == 500
min_docs_to_fetch == 3

ContextPool ==
    << [chunk_id |-> "A", document_type |-> "playbook", filename |-> "a.md",
        section_title |-> "Risk", content |-> "alpha"],
       [chunk_id |-> "B", document_type |-> "playbook", filename |-> "a.md",
        section_title |-> "<None>", content |-> "beta"],
       [chunk_id |-> "C", document_type |-> "engagement", filename |-> "c.txt",
        section_title |-> "", content |-> "gamma"],
       [chunk_id |-> "D", document_type |-> "engagement", filename |-> "",
        section_title |-> "Fees", content |-> "alpha"] >>

MaxTokensValues == {0, 499, 1500, 1999, 2000, 4000}

SourceMarker == "[Source "
ContextSeparator == "\n\n---\n\n"

\* max(max_tokens // 500, 3) without the floor of 3
docs_to_fetch_unfloored(mt) == mt \div tokens_per_document
\* retrieve_for_context line 221
docs_to_fetch(mt) ==
    IF mt \div tokens_per_document > min_docs_to_fetch
    THEN mt \div tokens_per_document ELSE min_docs_to_fetch

\* a source list of retrieve: distinct chunks of the pool, rank is the position
PoolLists(limit) ==
    {h \in UNION {[1..n -> 1..Len(ContextPool)] : n \in 0..Min2(limit, Len(ContextPool))} :
        \A i, j \in 1..Len(h) : i # j => h[i] # h[j]}

PoolDocs(h) ==
    [i \in 1..Len(h) |-> [chunk_id |-> ContextPool[h[i]].chunk_id,
                          document_type |-> ContextPool[h[i]].document_type,
                          score |-> [n |-> 1, d |-> 1],
                          rank |-> i - 1]]

PoolEntry(chunk_id) ==
    ContextPool[CHOOSE i \in 1..Len(ContextPool) : ContextPool[i].chunk_id = chunk_id]

\* the decimal text of a small number, as an f-string formats it
str(n) == <<"0", "1", "2", "3", "4", "5", "6", "7", "8", "9">>[n + 1]

\* lines 233-238: f"{source_info}\n{doc.content}" for the document at index i
context_part(i, doc) ==
    LET e == PoolEntry(doc.chunk_id)
    IN <<SourceMarker, str(i + 1), ": ", e.filename>>
       \o (IF e.section_title \in {"<None>", ""} THEN <<>>
           ELSE <<" - ", e.section_title>>)
       \o <<"]", "\n", e.content>>

\* line 240: "\n\n---\n\n".join(context_parts)
RECURSIVE join(_, _)
join(sep, parts) ==
    IF parts = <<>> THEN <<>>
    ELSE IF Len(parts) = 1 THEN parts[1]
    ELSE parts[1] \o <<sep>> \o join(sep, Tail(parts))

format_context(docs) ==
    join(ContextSeparator, [i \in 1..Len(docs) |-> context_part(i - 1, docs[i])])

ContextInit ==
    /\ rfc_pc = "idle"
    /\ max_tokens = 0
    /\ rfc_top_k = 0
    /\ rfc_documents = <<>>
    /\ rfc_context = <<>>

RetrieveForContext ==
    /\ rfc_pc = "idle"
    /\ \E mt \in MaxTokensValues :
          LET k == docs_to_fetch(mt)
          IN /\ max_tokens' = mt
             /\ rfc_top_k' = k
             /\ \E dense \in PoolLists(Min2(k * 2, FetchCap)), sparse \in PoolLists(2) :
                   LET docs == RetrieveReturnValue(PoolDocs(dense), PoolDocs(sparse), k)
                   IN /\ rfc_documents' = docs
                      /\ rfc_context' = format_context(docs)
    /\ rfc_pc' = "returned"
    /\ UNCHANGED rc_rest

ContextNext == RetrieveForContext

(***************************************************************************)
(* Claims about the chunker                                                *)
(***************************************************************************)
\* paragraphs of the input: its non-blank blank-line-separated blocks
Paragraphs == _segment_text(text)

\* the content of c2 starts with a (non-empty) trailing part of the content of c1
OverlapLinked(c1, c2) ==
    \E k \in 1..Len(c2.content) : /\ k <= Len(c1.content)
                                  /\ SubSeq(c2.content, 1, k)
                                     = SubSeq(c1.content, Len(c1.content) - k + 1,
                                              Len(c1.content))

\* C2: at every point of chunk_document the chunks built so far carry the
\* chunk_index values 0, 1, ..., n-1 in list order and the document_id that was
\* passed in.
C2_IndicesSequential ==
    \A i \in 1..Len(chunks) : /\ chunks[i].chunk_index = i - 1
                              /\ chunks[i].document_id = document_id

\* C2 witness: a finished run with several chunks whose trailing buffer was dropped
C2_Witness == ck_pc = "done" /\ Len(chunks) >= 2 /\ last_discarded

\* C3 (as claimed): two blank-line-separated paragraphs whose token counts
\* together exceed target_size, with overlap > 0, give at least 2 chunks and the
\* second chunk starts with a trailing part of the first.
C3_TwoParagraphsOverlap ==
    (/\ ck_pc = "done"
     /\ config.overlap > 0
     /\ Len(Paragraphs) = 2
     /\ \A i \in 1..2 : Paragraphs[i].segment_type = "paragraph"
     /\ count_tokens(Paragraphs[1].text) + count_tokens(Paragraphs[2].text)
          > config.target_size)
    => (Len(chunks) >= 2 /\ OverlapLinked(chunks[1], chunks[2]))

\* C4 (as claimed): a non-blank document of at most target_size tokens gives at
\* least one chunk, and the first chunk contains the whole document text.
C4_ShortDocumentOneChunk ==
    (ck_pc = "done" /\ Strip(text) # <<>> /\ count_tokens(text) <= config.target_size)
    => (Len(chunks) >= 1 /\ Contains(chunks[1].content, text))

\* C5: chunk_document returns the empty list for every empty or whitespace-only text.
C5_BlankGivesNoChunks ==
    (ck_pc = "done" /\ \A i \in 1..Len(text) : text[i] \in {" ", "\n", "\t"})
    => chunks = <<>>

\* C5 witness: a finished run on a non-empty whitespace-only text
C5_Witness ==
    /\ ck_pc = "done"
    /\ Len(text) >= 2
    /\ \A i \in 1..Len(text) : text[i] \in {" ", "\n", "\t"}

\* C29 (as claimed): no chunk built by chunk_document has a token count above
\* max_size.
C29_ChunksSizeBounded ==
    \A i \in 1..Len(chunks) : chunks[i].token_count <= config.max_size

(***************************************************************************)
(* Claims about retrieval                                                  *)
(***************************************************************************)
ChunkIds(results) == [i \in 1..Len(results) |-> results[i].chunk_id]

\* C1 (as claimed): no item retrieve returns has a document type that requires a
\* higher role than the caller's, whatever document_types filter was supplied.
C1_NoItemAboveRole ==
    rt_pc = "done" =>
        \A i \in 1..Len(rt_result) :
            access_level(get_document_access_level(rt_result[i].document_type))
                <= access_level(user_role)

\* C6: with dense = [A, B] and sparse = [B, C] (ranks 0 and 1), weights 0.7 / 0.3 and
\* k = 60, the fused score of B is strictly greater than the scores of A and C, and
\* B is returned first with rank 0.
C6_FusionExample ==
    (/\ rt_pc = "done"
     /\ ChunkIds(dense_results) = <<"A", "B">>
     /\ ChunkIds(sparse_results) = <<"B", "C">>)
    => LET fused == _reciprocal_rank_fusion(dense_results, sparse_results)
           score(id) == (CHOOSE i \in 1..Len(fused) : fused[i].chunk_id = id)
       IN /\ ChunkIds(fused) = <<"B", "A", "C">>
          /\ FracLess(fused[score("A")].score, fused[score("B")].score)
          /\ FracLess(fused[score("C")].score, fused[score("B")].score)
          /\ rt_result[1].chunk_id = "B"
          /\ rt_result[1].rank = 0

\* C6 witness: retrieve returned from exactly these two lists
C6_Witness ==
    /\ rt_pc = "done"
    /\ ChunkIds(dense_results) = <<"A", "B">>
    /\ ChunkIds(sparse_results) = <<"B", "C">>
    /\ Len(rt_result) = 2

\* C7: a failing source never makes retrieve raise: after a dense failure the
\* result is the sparse results cut to top_k, after a sparse failure the dense
\* results cut to top_k, and the empty list when both failed or both are empty.
C7_SourceOutageTolerated ==
    /\ rt_pc # "raised"
    /\ rt_pc = "done" =>
          /\ (dense_failed /\ ~sparse_failed) => rt_result = Take(sparse_results, top_k)
          /\ (sparse_failed /\ ~dense_failed) => rt_result = Take(dense_results, top_k)
          /\ (dense_failed /\ sparse_failed) => rt_result = <<>>
          /\ (dense_results = <<>> /\ sparse_results = <<>>) => rt_result = <<>>

\* C7 witness: the dense side raised and sparse results were still returned
C7_Witness == rt_pc = "done" /\ dense_failed /\ ~sparse_failed /\ rt_result # <<>>

\* C8: every list retrieve returns has at most top_k items, with ranks 0..n-1 in
\* list order.
C8_BoundedDenseRanks ==
    rt_pc = "done" =>
        /\ Len(rt_result) <= top_k
        /\ \A i \in 1..Len(rt_result) : rt_result[i].rank = i - 1

\* C8 witness: sparse-only return after a dense outage, cut down to top_k
C8_Witness ==
    /\ rt_pc = "done"
    /\ dense_failed
    /\ Len(sparse_results) > top_k
    /\ Len(rt_result) = top_k

\* C27: when both sources returned something, the fused list holds every chunk
\* id of the two lists exactly once; the score of an id is weight / (k + rank)
\* summed over the lists that hold it (the weights are in tenths, which is the
\* factor 10), capped at 1; the list is in non-increasing score order; and an
\* id in both lists scores at least what either of its two terms alone gives.
\* retrieve returns the first top_k items of that list.
C27_FusionSumsAndSorts ==
    (rt_pc \in {"merge", "done"} /\ dense_results # <<>> /\ sparse_results # <<>>) =>
       LET fused == _reciprocal_rank_fusion(dense_results, sparse_results)
           In(list, id) == \E i \in 1..Len(list) : list[i].chunk_id = id
           RankIn(list, id) == list[CHOOSE i \in 1..Len(list) : list[i].chunk_id = id].rank
           Term(weight, list, id) == [n |-> weight, d |-> rrf_k + RankIn(list, id)]
           Sum(id) ==
               IF In(dense_results, id) /\ In(sparse_results, id)
               THEN FracAdd(Term(dense_weight, dense_results, id),
                            Term(sparse_weight, sparse_results, id))
               ELSE IF In(dense_results, id) THEN Term(dense_weight, dense_results, id)
               ELSE Term(sparse_weight, sparse_results, id)
       IN /\ \A i, j \in 1..Len(fused) : fused[i].chunk_id = fused[j].chunk_id => i = j
          /\ {fused[i].chunk_id : i \in 1..Len(fused)}
                = {dense_results[i].chunk_id : i \in 1..Len(dense_results)}
                  \cup {sparse_results[i].chunk_id : i \in 1..Len(sparse_results)}
          /\ \A i \in 1..Len(fused) :
                FracEq(fused[i].score, FracCap1(Sum(fused[i].chunk_id)))
          /\ \A i \in 1..(Len(fused) - 1) : ~FracLess(fused[i].score, fused[i + 1].score)
          /\ \A i \in 1..Len(fused) :
                (In(dense_results, fused[i].chunk_id) /\ In(sparse_results, fused[i].chunk_id))
                   => /\ ~FracLess(fused[i].score,
                                   FracCap1(Term(dense_weight, dense_results, fused[i].chunk_id)))
                      /\ ~FracLess(fused[i].score,
                                   FracCap1(Term(sparse_weight, sparse_results, fused[i].chunk_id)))
          /\ rt_pc = "done" => rt_result = Take(fused, top_k)

\* C27 witness: a chunk second in the dense list and first in the sparse list
\* was fused ahead of the chunk that is first in the dense list only
C27_Witness ==
    /\ rt_pc = "done"
    /\ Len(dense_results) = 2
    /\ Len(sparse_results) = 1
    /\ sparse_results[1].chunk_id = dense_results[2].chunk_id
    /\ Len(rt_result) = 2
    /\ rt_result[1].chunk_id = dense_results[2].chunk_id
    /\ rt_result[2].chunk_id = dense_results[1].chunk_id

(***************************************************************************)
(* Claims about intent detection                                           *)
(***************************************************************************)
\* C9 (as claimed): rule-based detection of "What are the key risks for this
\* project?" gives risk_analysis with method "rule" and confidence >= 0.6, so the
\* rule result is returned without a classifier call.
C9_KeyRisksIsRiskAnalysis ==
    (in_pc = "done" /\ intent_enabled /\ query = KeyRisksQuery)
    => /\ rule_result.task_type = "risk_analysis"
       /\ rule_result.method = "rule"
       /\ rule_result.confidence >= RULE_CONFIDENCE_THRESHOLD
       /\ intent_match = rule_result
       /\ llm_calls = 0

(***************************************************************************)
(* Claims about the pipeline                                               *)
(***************************************************************************)
\* the text is not valid JSON once stripped and unfenced
Malformed(raw) == json_loads(StripFence(raw)).status # "ok"

\* C10 (as claimed): when the generative model returned malformed or truncated
\* JSON, _parse_response does not raise, the outcome has success = true, and the
\* response carries a parse-error note together with the raw model text.
C10_MalformedJsonAbsorbed ==
    (pq_pc = "done" /\ raw_response # NoText /\ Malformed(raw_response))
    => /\ ~parse_raised
       /\ outcome.success
       /\ "parse_error" \in outcome.response.keys
       /\ outcome.response.raw_response = raw_response

\* C11 (as claimed): whenever the generative call returned text, whatever the
\* text is, process_query ends with success = true.
C11_ReturnedTextNeverFails ==
    (pq_pc = "done" /\ raw_response # NoText) => outcome.success

\* C12: a run of process_query has an outcome exactly when it has ended, the
\* outcome is Success (no error) or Failed (with the error of the stage that
\* raised), no exception leaves process_query, and when the generative call
\* raised the outcome is Failed and neither the parse nor the assemble stage ran.
C12_OneTerminalOutcome ==
    /\ (outcome # NoOutcome) <=> (pq_pc = "done")
    /\ pq_pc = "done" =>
          /\ outcome.success => outcome.error = "none"
          /\ ~outcome.success => outcome.error \in {"generate", "parse", "assemble"}
          /\ raw_response = NoText =>
                /\ ~outcome.success
                /\ outcome.error = "generate"
                /\ stages = <<"ClassifyIntent", "Retrieve", "BuildPrompt", "Generate">>

\* C12 witness: the generative call raised and the run ended Failed
C12_Witness ==
    pq_pc = "done" /\ raw_response = NoText /\ ~outcome.success /\ Len(stages) = 4

\* C13 (as claimed): when retrieval returned no documents the context is the
\* no-relevant-documents marker, the prompt is still built and the generative
\* model still called, and whenever that call returned text the run ends in
\* Success with no sources and documents_retrieved = 0.
C13_NoDocumentsStillSucceeds ==
    (pq_pc = "done" /\ documents = 0) =>
        /\ context = "no_documents"
        /\ SubSeq(stages, 1, 4) = <<"ClassifyIntent", "Retrieve", "BuildPrompt", "Generate">>
        /\ raw_response # NoText =>
              /\ outcome.success
              /\ outcome.sources = <<>>
              /\ outcome.documents_retrieved = 0

\* C14 (as claimed): the IntentMatch detect returns has a confidence in [0,1]
\* (0..10 tenths) whichever way it was produced, and so has the confidence
\* process_query carries from classification towards the outcome.
C14_ConfidenceInUnitInterval ==
    /\ in_pc = "done" => (intent_match.confidence >= 0 /\ intent_match.confidence <= 10)
    /\ pq_pc \notin {"idle", "classify"} => ConfidenceAccepted(intent_confidence)

\* C15: in every Success outcome the sources are at most request.max_sources and
\* at most the documents retrieved, they are the first retrieved documents in
\* rank order, documents_used is their number, and there is none when
\* include_sources is false.
C15_SourcesBounded ==
    (pq_pc = "done" /\ outcome.success) =>
        /\ Len(outcome.sources) <= request.max_sources
        /\ Len(outcome.sources) <= outcome.documents_retrieved
        /\ outcome.documents_retrieved = documents
        /\ outcome.sources = SubSeq(Retrieved(documents), 1, Len(outcome.sources))
        /\ outcome.documents_used = Len(outcome.sources)
        /\ ~request.include_sources => outcome.sources = <<>>
        /\ request.include_sources =>
              Len(outcome.sources) = Min2(documents, request.max_sources)

\* C15 witness: a Success outcome that cites fewer documents than were retrieved
\* because max_sources cut the list
C15_Witness ==
    /\ pq_pc = "done" /\ outcome.success /\ request.include_sources
    /\ documents > request.max_sources
    /\ Len(outcome.sources) = request.max_sources

\* C16: the roles are ordered analyst < consultant < partner; the document types
\* accessible to analyst are among those accessible to consultant, which are
\* among those accessible to partner; and for every role, the caller's included,
\* a document type is accessible exactly when the role's level is at least the
\* level the type requires.
C16_RoleHierarchy ==
    /\ access_level("analyst") < access_level("consultant")
    /\ access_level("consultant") < access_level("partner")
    /\ get_accessible_document_types("analyst")
          \subseteq get_accessible_document_types("consultant")
    /\ get_accessible_document_types("consultant")
          \subseteq get_accessible_document_types("partner")
    /\ \A role \in UserRoles \cup {user_role} :
          \A t \in DOMAIN DOCUMENT_ACCESS_LEVELS :
              t \in get_accessible_document_types(role)
                  <=> access_level(role) >= access_level(get_document_access_level(t))

\* C16 witness: a consultant's retrieval has run; the consultant's set holds an
\* analyst type and a consultant type and no partner type
C16_Witness ==
    /\ rt_pc = "done"
    /\ user_role = "consultant"
    /\ {"playbook", "engagement"} \subseteq get_accessible_document_types(user_role)
    /\ "partner_memo" \notin get_accessible_document_types(user_role)
    /\ get_accessible_document_types("analyst") # get_accessible_document_types(user_role)

\* C17: within one run the stages execute in the order ClassifyIntent, Retrieve,
\* BuildPrompt, Generate, ParseAndValidate, Assemble: the stages executed so far
\* are always a prefix of that order (so each ran at most once and none before
\* its predecessor completed), the stage about to run is the next of the order,
\* and the generative call is made only after retrieval has finished.
C17_StagesInOrder ==
    LET order == <<"ClassifyIntent", "Retrieve", "BuildPrompt", "Generate",
                   "ParseAndValidate", "Assemble">>
        position == [pc \in {"classify", "retrieve", "build_prompt", "generate",
                             "parse", "assemble"} |->
                        CASE pc = "classify" -> 1
                          [] pc = "retrieve" -> 2
                          [] pc = "build_prompt" -> 3
                          [] pc = "generate" -> 4
                          [] pc = "parse" -> 5
                          [] pc = "assemble" -> 6]
    IN /\ Len(stages) <= Len(order)
       /\ stages = SubSeq(order, 1, Len(stages))
       /\ pq_pc \in DOMAIN position => Len(stages) = position[pq_pc] - 1
       /\ (context = "none") <=> (Len(stages) < 2)
       /\ raw_response # NoText => (Len(stages) >= 4 /\ context # "none")
       /\ (pq_pc = "done" /\ outcome.success) => stages = order

\* C17 witness: a run that went through all six stages to a Success outcome
C17_Witness ==
    pq_pc = "done" /\ outcome.success /\ Len(stages) = 6 /\ stages[6] = "Assemble"

\* C18: when the request carries an explicit task type, from classification on
\* the run has invoked neither detect, nor its rule phase, nor the classifier;
\* the task type of the run and of its outcome is the explicit one; and the
\* stage after classification is retrieval.
C18_ExplicitTaskTypeShortCircuits ==
    (request.task_type # NoTask /\ pq_pc \notin {"idle", "classify"}) =>
        /\ detector_calls = [detect |-> 0, rules |-> 0, llm |-> 0]
        /\ task_type = request.task_type
        /\ pq_pc = "retrieve" => stages = <<"ClassifyIntent">>
        /\ Len(stages) >= 2 => stages[2] = "Retrieve"
        /\ pq_pc = "done" => outcome.task_type = request.task_type

\* C18 witness: a run with an explicit task type that differs from what the
\* detector would have answered ended in Success
C18_Witness ==
    /\ pq_pc = "done" /\ outcome.success
    /\ request.task_type = "executive_summary"
    /\ outcome.task_type = "executive_summary"
    /\ \A m \in DetectReturns(request.query, detection_enabled) :
          m.task_type # request.task_type

\* C19: once the rule phase has run, its result is as follows.  A category's
\* score is the greatest weight among its patterns that match the query; the
\* result's confidence is the highest score of any category and its task type
\* is, among the categories with that score, the one declared first in
\* TaskType; when no pattern of any category matches, the result is
\* question_answer with confidence 0.3.
C19_RulePhaseScoring ==
    (in_pc # "idle" /\ rule_result # NoMatch) =>
        LET position == [t \in TaskTypes |->
                            CHOOSE i \in 1..Len(TaskTypeEnum) : TaskTypeEnum[i] = t]
            weights(c) == {INTENT_PATTERNS[c].patterns[k].weight :
                              k \in {j \in 1..Len(INTENT_PATTERNS[c].patterns) :
                                         Search(query, INTENT_PATTERNS[c].patterns[j])}}
            scored == {c \in 1..Len(INTENT_PATTERNS) : weights(c) # {}}
            score(c) == CHOOSE w \in weights(c) : \A v \in weights(c) : v <= w
            top == {c \in scored : \A o \in scored : score(o) <= score(c)}
        IN IF scored = {}
           THEN rule_result = [task_type |-> "question_answer", confidence |-> 3,
                               method |-> "rule"]
           ELSE /\ rule_result.method = "rule"
                /\ \E c \in top :
                      /\ rule_result.task_type = INTENT_PATTERNS[c].task_type
                      /\ rule_result.confidence = score(c)
                      /\ \A o \in top :
                            position[INTENT_PATTERNS[c].task_type]
                                <= position[INTENT_PATTERNS[o].task_type]

\* C19 witness: the rule phase ran on a query for which two categories tie at
\* the highest score and one of them matched with two patterns; the category
\* declared first was returned with the single weight, not the sum
C19_Witness ==
    /\ in_pc = "done" /\ intent_enabled
    /\ query = TwoTaskQuery
    /\ Cardinality(Matched(query, INTENT_PATTERNS[1])) = 2
    /\ MaxWeight(query, INTENT_PATTERNS[1]) = MaxWeight(query, INTENT_PATTERNS[3])
    /\ rule_result.task_type = "summarize_client"
    /\ rule_result.confidence = 10

\* C20: detect invokes the classifier only when the rule confidence is strictly
\* below the escalate threshold 0.4 and a classifier is configured; with a rule
\* confidence at or above the accept threshold 0.6, or between the two
\* thresholds, it returns the rule result and never invokes the classifier.
\* The first three conjuncts are about the call in progress; the last one is
\* the same decision for every confidence in tenths, since no pattern weight
\* lies between the thresholds.
C20_EscalationThresholds ==
    /\ LLM_FALLBACK_THRESHOLD = 4 /\ RULE_CONFIDENCE_THRESHOLD = 6
    /\ (in_pc = "llm" \/ llm_calls > 0) =>
          /\ rule_result.confidence < LLM_FALLBACK_THRESHOLD
          /\ llm_configured
          /\ llm_calls <= 1
    /\ (in_pc = "done" /\ intent_enabled
            /\ rule_result.confidence >= LLM_FALLBACK_THRESHOLD) =>
          /\ intent_match = rule_result
          /\ llm_calls = 0
    /\ \A conf \in 0..10, fallback \in BOOLEAN, configured \in BOOLEAN :
          (conf < RULE_CONFIDENCE_THRESHOLD /\ Escalates(conf, fallback, configured))
              => (conf < LLM_FALLBACK_THRESHOLD /\ configured)

\* C20 witness: the rule phase gave less than 0.4 with a classifier configured,
\* the classifier was invoked once and its answer was returned
C20_Witness ==
    /\ in_pc = "done" /\ llm_calls = 1 /\ llm_configured
    /\ rule_result.confidence < LLM_FALLBACK_THRESHOLD
    /\ intent_match.method = "llm"

\* C21: after the classifier was invoked, detect's result differs from the rule
\* result only when the classifier's confidence is strictly greater than the
\* rule result's (and then it is the classifier's result); when the call raised,
\* or the reply names no known category or carries no number as confidence,
\* detect has returned the rule result unchanged.
C21_ClassifierReplacesOnlyIfGreater ==
    (in_pc = "done" /\ llm_calls > 0) =>
        LET raised == llm_reply.task_value = "<raised>"
            number == IF llm_reply.parts > 1 THEN FloatOf(llm_reply.confidence)
                      ELSE [ok |-> TRUE, value |-> 7]
            parsed == ~raised /\ llm_reply.task_value \in TaskTypes /\ number.ok
        IN /\ ~parsed => intent_match = rule_result
           /\ (parsed /\ number.value <= rule_result.confidence)
                 => intent_match = rule_result
           /\ (parsed /\ number.value > rule_result.confidence)
                 => intent_match = [task_type |-> llm_reply.task_value,
                                    confidence |-> number.value, method |-> "llm"]
           /\ intent_match # rule_result =>
                 /\ intent_match.method = "llm"
                 /\ intent_match.confidence > rule_result.confidence

\* C21 witness: the classifier answered with a known category and exactly the
\* rule result's confidence, and the rule result was kept
C21_Witness ==
    /\ in_pc = "done" /\ llm_calls = 1
    /\ llm_reply.task_value = "risk_analysis" /\ llm_reply.parts = 2
    /\ FloatOf(llm_reply.confidence).value = rule_result.confidence
    /\ rule_result.task_type = "question_answer"
    /\ intent_match = rule_result

\* C22 (as claimed): when the model's text, code fence stripped, is valid JSON
\* that fails the task's output schema, the response _parse_response returned
\* carries a validation-error note, which no validated response carries.
C22_SchemaInvalidAnnotated ==
    (/\ pq_pc \in {"assemble", "done"}
     /\ structured_enabled
     /\ raw_response # NoText
     /\ ~parse_raised
     /\ json_loads(StripFence(raw_response)).status = "ok"
     /\ ~SchemaValid(json_loads(StripFence(raw_response)), task_type))
    => /\ "validation_error" \in parsed_response.keys
       /\ "validation_error" \notin ModelFields(task_type)

\* C23 (as claimed): in an iteration of _create_chunks over a heading block of
\* level L the heading stack becomes its first L-1 entries followed by the
\* cleaned heading text; and when no heading came before, a chunk emitted in
\* that iteration from the buffer collected before the heading carries no
\* section title and an empty heading hierarchy.
C23_HeadingOnlyOnLaterChunks ==
    [][(/\ ck_pc = "loop"
        /\ segments # <<>>
        /\ Head(segments).segment_type = "heading")
       => /\ current_heading_hierarchy' =
                Append(SubSeq(current_heading_hierarchy, 1,
                              Head(segments).heading_level - 1),
                       _clean_heading(Head(segments).text))
          /\ (/\ current_section_title = <<>>
              /\ Len(chunks') > Len(chunks)
              /\ chunks'[Len(chunks) + 1].content = Strip(current_chunk_text))
             => /\ chunks'[Len(chunks) + 1].section_title = <<>>
                /\ chunks'[Len(chunks) + 1].heading_hierarchy = <<>>]_vars

C25_QueryPathLeavesSharedState ==
    [][ix_op' \in {"search", "embed_text"}
       => UNCHANGED <<index_documents, bm25, _needs_rebuild, _cache>>]_vars

\* C30: whenever the rebuild flag is false, the built index holds the token
\* lists of the current documents, one to one and in order; and a search just
\* made did not index past the document list, left the index built from
\* exactly the current documents (or absent when there is none), returned only
\* documents that are in the list now, none that was removed and not added
\* again, and none whose document_type fails the filter it was given.
C30_SearchUsesCurrentIndex ==
    LET current == [i \in 1..Len(index_documents) |-> index_documents[i].tokens]
        ids == {index_documents[i].chunk_id : i \in 1..Len(index_documents)}
    IN /\ ~_needs_rebuild => (bm25.built /\ bm25.corpus = current)
       /\ ix_op = "search" =>
             /\ ~ix_result.raised
             /\ IF index_documents = <<>> THEN ~bm25.built
                ELSE bm25.built /\ bm25.corpus = current /\ ~_needs_rebuild
             /\ \A i \in 1..Len(ix_result.results) :
                   /\ ix_result.results[i].chunk_id \in ids
                   /\ ix_result.results[i].chunk_id \notin ix_removed
                   /\ ix_result.filter.given =>
                         ix_result.results[i].document_type
                             \in ix_result.filter.document_type

\* C30 witness: after a document was removed, a filtered search returned the
\* document that is left
C30_Witness ==
    /\ ix_op = "search"
    /\ ix_removed = {"B"}
    /\ Len(index_documents) = 1
    /\ ix_result.filter.given
    /\ Len(ix_result.results) = 1
    /\ ix_result.results[1].chunk_id = "A"

(***************************************************************************)
(* Claims about the LLM provider                                           *)
(***************************************************************************)
\* C26 (as claimed): a generate call makes at most 3 attempts and returns at
\* the first success; when all 3 attempts failed with a rate-limit error the
\* caller receives an LLMRateLimitError.
C26_RetryKeepsRateLimit ==
    /\ attempt_number <= stop_after_attempt
    /\ attempt_number = Len(attempt_errors) + (IF gen_pc = "returned" THEN 1 ELSE 0)
    /\ gen_pc = "raised" =>
          /\ attempt_number = stop_after_attempt
          /\ (\A i \in 1..Len(attempt_errors) :
                  attempt_errors[i].raised = "LLMRateLimitError")
                => gen_outcome.type = "LLMRateLimitError"

(***************************************************************************)
(* Claims about retrieve_for_context                                       *)
(***************************************************************************)
\* C28: a call of retrieve_for_context asks retrieve for max(max_tokens // 500,
\* 3) items and returns at most that many documents; its context holds one
\* source marker per document, the j-th numbered j and opening the j-th part,
\* each part ending with "]", a line break and the content of the j-th
\* document; the parts are joined by the separator; without documents the
\* context is empty.
C28_ContextFromRetrieved ==
    rfc_pc = "returned" =>
       LET n == Len(rfc_documents)
           quota == max_tokens \div 500
           Markers == {i \in 1..Len(rfc_context) : rfc_context[i] = "[Source "}
           Seps == {i \in 1..Len(rfc_context) : rfc_context[i] = "\n\n---\n\n"}
           Nth(S, j) == CHOOSE x \in S : Cardinality({y \in S : y < x}) = j - 1
           First(j) == IF j = 1 THEN 1 ELSE Nth(Seps, j - 1) + 1
           Last(j) == IF j = n THEN Len(rfc_context) ELSE Nth(Seps, j) - 1
       IN /\ rfc_top_k >= 3 /\ rfc_top_k >= quota /\ rfc_top_k \in {3, quota}
          /\ n <= rfc_top_k
          /\ n = 0 => rfc_context = <<>>
          /\ Cardinality(Markers) = n
          /\ n > 0 =>
                /\ Cardinality(Seps) = n - 1
                /\ \A j \in 1..n :
                      /\ First(j) \in Markers
                      /\ rfc_context[First(j) + 1] = <<"1", "2", "3", "4">>[j]
                      /\ Last(j) >= First(j) + 6
                      /\ rfc_context[Last(j) - 2] = "]"
                      /\ rfc_context[Last(j) - 1] = "\n"
                      /\ rfc_context[Last(j)] = PoolEntry(rfc_documents[j].chunk_id).content

\* C28 witness: a call with max_tokens below 1500 returned three documents
\* out of the four indexed, the second without a section title
C28_Witness ==
    /\ rfc_pc = "returned"
    /\ max_tokens = 499
    /\ Len(rfc_documents) = 3
    /\ rfc_documents[1].chunk_id = "A"
    /\ rfc_documents[2].chunk_id = "B"
    /\ rfc_documents[3].chunk_id = "D"
    /\ Len(rfc_context) = 9 + 1 + 7 + 1 + 9

(***************************************************************************)
(* Specifications                                                          *)
(***************************************************************************)
InitChunker ==
    /\ ChunkerInit /\ RetrieverIdle /\ IntentIdle /\ PipelineIdle
    /\ IndexInit /\ ProviderInit /\ ContextInit
SpecChunker == InitChunker /\ [][ChunkerNext]_vars

InitRetrieve ==
    /\ RetrieverInit /\ ChunkerIdle /\ IntentIdle /\ PipelineIdle
    /\ IndexInit /\ ProviderInit /\ ContextInit
SpecRetrieve == InitRetrieve /\ [][RetrieverNext]_vars

InitIntent ==
    /\ IntentInit /\ ChunkerIdle /\ RetrieverIdle /\ PipelineIdle
    /\ IndexInit /\ ProviderInit /\ ContextInit
SpecIntent == InitIntent /\ [][IntentNext]_vars

InitQuery ==
    /\ PipelineInit /\ ChunkerIdle /\ RetrieverIdle /\ IntentIdle
    /\ IndexInit /\ ProviderInit /\ ContextInit
SpecQuery == InitQuery /\ [][PipelineNext]_vars

InitIndex ==
    /\ IndexInit /\ ChunkerIdle /\ RetrieverIdle /\ IntentIdle /\ PipelineIdle
    /\ ProviderInit /\ ContextInit
SpecIndex == InitIndex /\ [][IndexNext]_vars

InitProvider ==
    /\ ProviderInit /\ ChunkerIdle /\ RetrieverIdle /\ IntentIdle /\ PipelineIdle
    /\ IndexInit /\ ContextInit
SpecProvider == InitProvider /\ [][ProviderNext]_vars

InitContext ==
    /\ ContextInit /\ ChunkerIdle /\ RetrieverIdle /\ IntentIdle /\ PipelineIdle
    /\ IndexInit /\ ProviderInit
SpecContext == InitContext /\ [][ContextNext]_vars

====
